---- MODULE Spec2Model ----
(***************************************************************************)
(* YT-Summarizer: transcript extraction (content script), timestamp codec, *)
(* positional-sampling reducers, keyword aligner, summary cache, response  *)
(* formatter and the AI popup's handleSummarizeClick.                      *)
(*                                                                         *)
(* JavaScript strings are modelled as sequences of one-character strings,  *)
(* so that split, parseInt, padStart, toLowerCase, includes and string     *)
(* concatenation are computed character by character.                      *)
(***************************************************************************)
EXTENDS Integers, Sequences, FiniteSets, TLC

VARIABLES
  \* ---- timestamp codec (pure functions under test)
  cdPc, cdFrom, cdDisplay, cdSeconds, cdEncoded, cdRedecoded,
  \* ---- Date.now(), in milliseconds, and the number of clock steps taken
  now, ticks,
  \* ---- transcript-parser (second file): const transcriptCache = {}
  transcriptCache,
  \* ---- reducer calls: a reference call and the latest call, each <<>> or
  \* <<[at, out]>>
  rdFirst, rdLast,
  \* ---- reducer input under test: [fn, transcript, meta]
  rdInput,
  \* ---- addTimestampsToPoints: its arguments, and <<>> or <<result>>
  alPoints, alTranscript, alResult,
  \* ---- which cache functions the popup uses: "expiring" (first file of
  \* part_003), "memo" (second file), "popup" (checkCache and cacheResults
  \* of part_002)
  parserBuild,
  \* ---- chrome.storage.local: the summaryCache object, and the requests it
  \* has not answered yet, oldest first
  summaryCache, storageQueue,
  \* ---- cache calls: how many were made, the one made last if nothing
  \* happened since, the lookup that resolved last, the save whose
  \* storage.set was applied last
  cacheCalls, cacheLastCall, getDone, putDone,
  \* ---- content script: let transcriptCache = {} (here contentCache),
  \* isExtractingTranscript, retryCount
  contentCache, isExtractingTranscript, retryCount,
  \* ---- getTranscript messages: where each one stands, its videoId, and
  \* <<>> or <<what sendResponse was called with>>
  reqPc, reqVideo, response,
  \* ---- the page: what it offers, whether ytd-transcript-renderer is in
  \* the document, the ytd-transcript-segment-renderer rows in the document
  \* and those the page will load, the open menu, whether the transcript
  \* control was clicked
  page, panel, rows, pageRows, menuOpen, controlClicked,
  \* ---- per message: whether extractTranscript was called for it, how
  \* many clicks it made, the rows it read; and the messages that arrived
  \* while isExtractingTranscript was set
  started, clicksBy, readRows, arrivedBusy,
  \* ---- per message: what it clicked, in order
  clickLog,
  \* ---- formatSummaryResponse: its arguments and <<>> or <<the summary it
  \* returned>>; displaySummary: <<>> or <<[summary, rendered]>>
  fmResponse, fmTranscript, fmSummary, fmShown,
  \* ---- AI popup: let isProcessing; per call of handleSummarizeClick:
  \* where it stands, its videoId, the value it carries over its next
  \* await, how often it called checkCache, getTranscript,
  \* createSummary and cacheResults and how many getTranscript and
  \* summarizeDirectly messages it sent, the getTranscript message the
  \* content script is to get from it (0 for none), whether another call
  \* was under way when it started
  isProcessing, ppPc, ppVideo, ppHeld, ppOps, ppMessage, ppSawActive,
  \* ---- whether the auto-summarize timer is set, the call it made (0 for
  \* none), and whether the active tab has a content script listening
  ppTimer, ppTimerCall, ppInjected,
  \* ---- per call: <<>> or <<what displaySummary was called with, and
  \* whether it came from the cache>>
  ppShown,
  \* ---- whether window.TranscriptParser.createSummary is a function; per
  \* call: how the generator strategy ended ("none", "ok", "failed"), and
  \* <<>> or <<what displayError was called with>>
  ppFallback, ppAi, ppError,
  \* ---- one call of waitForElement: where it stands, its timeout, the
  \* time since the call, whether a matching element is in the document,
  \* the mutation records the observer has not been given yet, the timer,
  \* the observer, and what resolve and reject were called with, in order
  wfPc, wfTimeout, wfElapsed, wfElement, wfRecords, wfTimer, wfObserver,
  wfSettled,
  \* ---- one call of createSummarizationPrompt: <<>> or <<its arguments>>,
  \* and <<>> or <<the prompt it returned>>
  pmInput, pmPrompt,
  \* ---- window.ModelHandler: which initialize it has ("simulated" or
  \* "webllm"), whether the global webllm is defined, its fields modelLoaded,
  \* modelLoading and llm, progress.status, the statuses set in the last
  \* step with who set them, and whether status was ever "ready"
  mhBuild, mhScript, modelLoaded, modelLoading, llm, mhStatus, mhVia,
  mhWasReady,
  \* ---- per call of initialize or generateSummary: where it stands, which
  \* of the two it is, the timers of the simulated load it has behind it,
  \* the fields when initialize resolved, and the fields when llm.chat was
  \* invoked
  mhPc, mhKind, mhStep, mhResolved, mhChat,
  \* ---- the worker: the request messages sent to it so far, how many of
  \* them its listener has handled, and the messages it has posted (each
  \* with the number of the request whose handling posted it)
  wkSent, wkHandled, wkPosted

codecVars == <<cdPc, cdFrom, cdDisplay, cdSeconds, cdEncoded, cdRedecoded>>
clockVars == <<now, ticks>>
reduceVars == <<transcriptCache, rdFirst, rdLast, rdInput>>

alignVars == <<alPoints, alTranscript, alResult>>

cacheVars ==
  <<parserBuild, summaryCache, storageQueue, cacheCalls, cacheLastCall,
    getDone, putDone>>

extractVars ==
  <<contentCache, isExtractingTranscript, retryCount, reqPc, reqVideo,
    response, page, panel, rows, pageRows, menuOpen, controlClicked,
    started, clicksBy, readRows, arrivedBusy, clickLog>>

formatVars == <<fmResponse, fmTranscript, fmSummary, fmShown>>

popupVars ==
  <<isProcessing, ppPc, ppVideo, ppHeld, ppOps, ppMessage, ppSawActive,
    ppTimer, ppTimerCall, ppInjected, ppShown, ppFallback, ppAi, ppError>>

waitVars ==
  <<wfPc, wfTimeout, wfElapsed, wfElement, wfRecords, wfTimer, wfObserver,
    wfSettled>>

promptVars == <<pmInput, pmPrompt>>

handlerVars ==
  <<mhBuild, mhScript, modelLoaded, modelLoading, llm, mhStatus, mhVia,
    mhWasReady, mhPc, mhKind, mhStep, mhResolved, mhChat>>

workerVars == <<wkSent, wkHandled, wkPosted>>

vars ==
  <<codecVars, clockVars, reduceVars, alignVars, cacheVars, extractVars,
    formatVars, popupVars, waitVars, promptVars, handlerVars, workerVars>>

\* what each component leaves alone
codecRest ==
  <<clockVars, reduceVars, alignVars, cacheVars, extractVars, formatVars,
    popupVars,
    waitVars, promptVars, handlerVars, workerVars>>
reduceRest ==
  <<codecVars, alignVars, cacheVars, extractVars, formatVars, popupVars,
    waitVars, promptVars, handlerVars, workerVars>>
alignRest ==
  <<codecVars, clockVars, reduceVars, cacheVars, extractVars, formatVars,
    popupVars,
    waitVars, promptVars, handlerVars, workerVars>>
cacheRest ==
  <<codecVars, rdFirst, rdLast, rdInput, alignVars, extractVars, formatVars,
    popupVars,
    waitVars, promptVars, handlerVars, workerVars>>
extractRest ==
  <<codecVars, clockVars, reduceVars, alignVars, cacheVars, formatVars,
    popupVars,
    waitVars, promptVars, handlerVars, workerVars>>
formatRest ==
  <<codecVars, clockVars, reduceVars, alignVars, cacheVars, extractVars,
    popupVars,
    waitVars, promptVars, handlerVars, workerVars>>
popupRest ==
  <<codecVars, clockVars, rdFirst, rdLast, rdInput, alignVars, formatVars,
    parserBuild, storageQueue, cacheCalls, cacheLastCall, getDone, putDone,
    waitVars, promptVars, handlerVars, workerVars>>
promptRest ==
  <<codecVars, clockVars, reduceVars, alignVars, cacheVars, extractVars,
    formatVars, popupVars, waitVars, handlerVars, workerVars>>
handlerRest ==
  <<codecVars, clockVars, reduceVars, alignVars, cacheVars, extractVars,
    formatVars, popupVars, waitVars, promptVars, workerVars>>
workerRest ==
  <<codecVars, clockVars, reduceVars, alignVars, cacheVars, extractVars,
    formatVars, popupVars, waitVars, promptVars, handlerVars>>
waitRest ==
  <<codecVars, clockVars, reduceVars, alignVars, cacheVars, extractVars,
    formatVars, popupVars, promptVars, handlerVars, workerVars>>

(***************************************************************************)
(* Strings                                                                 *)
(***************************************************************************)
Digits == <<"0", "1", "2", "3", "4", "5", "6", "7", "8", "9">>

IsDigit(c) == \E i \in 1..10 : Digits[i] = c

DigitVal(c) == (CHOOSE i \in 1..10 : Digits[i] = c) - 1

\* Number.prototype.toString for an integer n >= 0
RECURSIVE NumToString(_)
NumToString(n) ==
  IF n < 10 THEN <<Digits[n + 1]>>
  ELSE NumToString(n \div 10) \o <<Digits[(n % 10) + 1]>>

\* String.prototype.padStart(2, '0')
PadStart2(s) == IF Len(s) < 2 THEN <<"0">> \o s ELSE s

\* String.prototype.split(sep) for a one-character separator
RECURSIVE Split(_, _)
Split(s, sep) ==
  IF \A i \in 1..Len(s) : s[i] # sep THEN <<s>>
  ELSE LET k == CHOOSE i \in 1..Len(s) :
                  s[i] = sep /\ \A j \in 1..(i - 1) : s[j] # sep
       IN <<SubSeq(s, 1, k - 1)>> \o Split(SubSeq(s, k + 1, Len(s)), sep)

\* the value parseInt yields for a string with no leading digit
NaN == -1

\* value of a string of digits
RECURSIVE DigitsValue(_)
DigitsValue(s) ==
  IF s = <<>> THEN 0
  ELSE DigitsValue(SubSeq(s, 1, Len(s) - 1)) * 10 + DigitVal(s[Len(s)])

\* parseInt(s): the longest leading run of digits, NaN when there is none
\* (leading blanks are skipped; the alphabet used here has no sign character)
RECURSIVE LeadingDigits(_)
LeadingDigits(s) ==
  IF s = <<>> \/ ~IsDigit(s[1]) THEN <<>>
  ELSE <<s[1]>> \o LeadingDigits(Tail(s))

RECURSIVE SkipBlanks(_)
SkipBlanks(s) == IF s # <<>> /\ s[1] = " " THEN SkipBlanks(Tail(s)) ELSE s

ParseInt(s) ==
  LET d == LeadingDigits(SkipBlanks(s))
  IN IF d = <<>> THEN NaN ELSE DigitsValue(d)

\* JavaScript + and * on numbers where an operand may be NaN
NumAdd(a, b) == IF a = NaN \/ b = NaN THEN NaN ELSE a + b
NumMul(a, b) == IF a = NaN \/ b = NaN THEN NaN ELSE a * b

(***************************************************************************)
(* Timestamp codec                                                         *)
(***************************************************************************)
SecondsPerMinute == 60
SecondsPerHour == 3600

\* content.js: seconds from the timestamp label of a transcript row
DecodeTimestamp(timeText) ==
  LET timeParts == Split(timeText, ":")
  IN IF Len(timeParts) = 2
       THEN NumAdd(NumMul(ParseInt(timeParts[1]), SecondsPerMinute),
                   ParseInt(timeParts[2]))
     ELSE IF Len(timeParts) = 3
       THEN NumAdd(NumAdd(NumMul(ParseInt(timeParts[1]), SecondsPerHour),
                          NumMul(ParseInt(timeParts[2]), SecondsPerMinute)),
                   ParseInt(timeParts[3]))
     ELSE 0

Unknown == <<"U", "n", "k", "n", "o", "w", "n">>

\* a plausible slip: the minutes are not reduced modulo the hour
FormatDurationNoHourMod(seconds) ==
  IF seconds = 0 \/ seconds = NaN THEN Unknown
  ELSE LET hours == seconds \div SecondsPerHour
           minutes == seconds \div SecondsPerMinute
           secs == seconds % SecondsPerMinute
       IN IF hours > 0
            THEN NumToString(hours) \o <<":">> \o PadStart2(NumToString(minutes))
                   \o <<":">> \o PadStart2(NumToString(secs))
            ELSE NumToString(minutes) \o <<":">> \o PadStart2(NumToString(secs))

\* a plausible slip: the padStart(2, '0') calls are left out
FormatDurationNoPad(seconds) ==
  IF seconds = 0 \/ seconds = NaN THEN Unknown
  ELSE LET hours == seconds \div SecondsPerHour
           minutes == (seconds % SecondsPerHour) \div SecondsPerMinute
           secs == seconds % SecondsPerMinute
       IN IF hours > 0
            THEN NumToString(hours) \o <<":">> \o NumToString(minutes)
                   \o <<":">> \o NumToString(secs)
            ELSE NumToString(minutes) \o <<":">> \o NumToString(secs)

\* youtube-api.js: YouTubeAPI.formatDuration
formatDuration(seconds) ==
  IF seconds = 0 \/ seconds = NaN THEN Unknown
  ELSE LET hours == seconds \div SecondsPerHour
           minutes == (seconds % SecondsPerHour) \div SecondsPerMinute
           secs == seconds % SecondsPerMinute
       IN IF hours > 0
            THEN NumToString(hours) \o <<":">> \o PadStart2(NumToString(minutes))
                   \o <<":">> \o PadStart2(NumToString(secs))
            ELSE NumToString(minutes) \o <<":">> \o PadStart2(NumToString(secs))

(***************************************************************************)
(* Arrays                                                                  *)
(***************************************************************************)
Min(a, b) == IF a < b THEN a ELSE b
Max(a, b) == IF a > b THEN a ELSE b

\* Math.ceil(a / b) for a >= 0, b > 0
CeilDiv(a, b) == (a + b - 1) \div b

\* Array.prototype.slice(start, end) on a 0-based array held as a sequence
Slice(arr, start, end) ==
  LET n == Len(arr)
      from == IF start < 0 THEN Max(n + start, 0) ELSE Min(start, n)
      to == IF end < 0 THEN Max(n + end, 0) ELSE Min(end, n)
  IN IF to <= from THEN <<>> ELSE SubSeq(arr, from + 1, to)

\* Array.prototype.slice(start)
SliceFrom(arr, start) == Slice(arr, start, Len(arr))

\* Array.prototype.sort((a, b) => a.seconds - b.seconds), which is stable:
\* x goes behind the elements of sorted whose key is not larger
RECURSIVE InsertBySeconds(_, _)
InsertBySeconds(sorted, x) ==
  IF sorted = <<>> THEN <<x>>
  ELSE IF sorted[Len(sorted)].seconds <= x.seconds THEN Append(sorted, x)
  ELSE Append(InsertBySeconds(SubSeq(sorted, 1, Len(sorted) - 1), x),
              sorted[Len(sorted)])

\* the elements k.. of arr inserted one by one into acc (each insertion is
\* evaluated before the next one is entered)
RECURSIVE SortFrom(_, _, _)
SortFrom(arr, k, acc) ==
  IF k > Len(arr) THEN acc
  ELSE LET next == InsertBySeconds(acc, arr[k])
       IN IF Len(next) >= 0 THEN SortFrom(arr, k + 1, next) ELSE next

SortBySeconds(arr) == SortFrom(arr, 1, <<>>)

IsBlank(c) == c = " "

\* String.prototype.trim
RECURSIVE TrimEnd(_)
TrimEnd(s) ==
  IF s # <<>> /\ IsBlank(s[Len(s)]) THEN TrimEnd(SubSeq(s, 1, Len(s) - 1))
  ELSE s

Trim(s) == TrimEnd(SkipBlanks(s))

(***************************************************************************)
(* Summary reducers (transcript-parser)                                    *)
(***************************************************************************)
BlockSize == 15
ParagraphSize == 5
BasicCount == 3

VideoIds == {"vidA", "vidB"}

\* an entry of transcriptCache that was never written
NoCacheEntry == [transcript |-> <<>>, summary |-> <<>>]

EmptyTranscriptCache == [v \in VideoIds |-> NoCacheEntry]

CacheEntryOf(videoId) == transcriptCache[videoId]

\* transcriptCache[videoId] = entry
CachePut(videoId, entry) == [transcriptCache EXCEPT ![videoId] = entry]

\* one turn of the forEach of createSummary that merges segments into
\* paragraphs: st = [paragraphs, current], index is 0-based
MergeStep(st, segment, index, count) ==
  LET starts == index > 0 /\ index % ParagraphSize = 0
      pushed == IF starts /\ Trim(st.current.text) # <<>>
                  THEN Append(st.paragraphs, st.current)
                  ELSE st.paragraphs
      current == IF starts
                   THEN [text |-> segment.text,
                         timestamp |-> segment.timestamp,
                         seconds |-> segment.seconds]
                   ELSE [st.current EXCEPT
                           !.text = st.current.text \o <<" ">> \o segment.text]
      last == index = count - 1 /\ Trim(current.text) # <<>>
  IN [paragraphs |-> IF last THEN Append(pushed, current) ELSE pushed,
      current |-> current]

\* the turns lo..hi of the forEach, applied in order to st (the range is
\* halved, and the left half is evaluated before the right half is entered,
\* so that the evaluation stays shallow)
RECURSIVE MergeRange(_, _, _, _)
MergeRange(segs, lo, hi, st) ==
  IF lo > hi THEN st
  ELSE IF lo = hi THEN MergeStep(st, segs[lo], lo - 1, Len(segs))
  ELSE LET mid == (lo + hi) \div 2
           left == MergeRange(segs, lo, mid, st)
       IN IF Len(left.paragraphs) >= 0
            THEN MergeRange(segs, mid + 1, hi, left)
            ELSE left

\* the paragraphs array after the forEach
MergeParagraphs(segs) ==
  MergeRange(segs, 1, Len(segs),
             [paragraphs |-> <<>>,
              current |-> [text |-> <<>>, timestamp |-> <<>>, seconds |-> 0]]
            ).paragraphs

\* a plausible slip: the middle block placed as createBasicSummary places
\* it, one segment before the middle
SelectedSegmentsAroundMiddle(transcript) ==
  LET sortedTranscript == SortBySeconds(transcript)
      totalSegments == Len(sortedTranscript)
      segmentsToUse == Min(BlockSize, totalSegments \div 3)
      middleStart == Max(0, (totalSegments \div 2) - 1)
  IN [beginning |-> Slice(sortedTranscript, 0, segmentsToUse),
      middle |->
        Slice(sortedTranscript, middleStart, middleStart + segmentsToUse),
      end |-> SliceFrom(sortedTranscript, 0 - segmentsToUse)]

SelectedSegments(transcript) ==
  LET sortedTranscript == SortBySeconds(transcript)
      totalSegments == Len(sortedTranscript)
      segmentsToUse == Min(BlockSize, totalSegments \div 3)
      beginningSegments == Slice(sortedTranscript, 0, segmentsToUse)
      middleStart == (totalSegments - segmentsToUse) \div 2
      middleSegments ==
        Slice(sortedTranscript, middleStart, middleStart + segmentsToUse)
      endSegments == SliceFrom(sortedTranscript, 0 - segmentsToUse)
  IN [beginning |-> beginningSegments,
      middle |-> middleSegments,
      end |-> endSegments]

SummarySections(paragraphs) ==
  LET n == Len(paragraphs)
  IN << [title |-> "Introduction",
         paragraphs |-> Slice(paragraphs, 0, CeilDiv(n, 3))],
        [title |-> "Main Points",
         paragraphs |-> Slice(paragraphs, CeilDiv(n, 3), CeilDiv(n * 2, 3))],
        [title |-> "Conclusion",
         paragraphs |-> SliceFrom(paragraphs, CeilDiv(n * 2, 3))] >>

\* a plausible slip: the paragraphs array is kept across calls, so a call adds
\* its paragraphs to those of the summary cached for the video
CreateSummaryAccumulating(transcript, videoId) ==
  IF Len(transcript) = 0 THEN [ok |-> FALSE, error |-> "Empty transcript"]
  ELSE
    LET sel == SelectedSegments(transcript)
        summarySegments == SortBySeconds(sel.beginning \o sel.middle \o sel.end)
        cached == CacheEntryOf(videoId).summary
        before == IF cached = <<>> THEN <<>>
                  ELSE cached[1].sections[1].paragraphs
                         \o cached[1].sections[2].paragraphs
                         \o cached[1].sections[3].paragraphs
        paragraphs ==
          before \o MergeParagraphs(summarySegments)
    IN [ok |-> TRUE,
        summary |-> [title |-> "Video Summary",
                     videoId |-> videoId,
                     sections |-> SummarySections(paragraphs),
                     timestamp |-> now]]

\* a plausible slip: transcripts too short to fill three blocks are refused
CreateSummaryMinThree(transcript, videoId) ==
  IF Len(transcript) < 3 THEN [ok |-> FALSE, error |-> "Empty transcript"]
  ELSE
    LET sel == SelectedSegments(transcript)
        summarySegments == SortBySeconds(sel.beginning \o sel.middle \o sel.end)
        paragraphs == MergeParagraphs(summarySegments)
    IN [ok |-> TRUE,
        summary |-> [title |-> "Video Summary",
                     videoId |-> videoId,
                     sections |-> SummarySections(paragraphs),
                     timestamp |-> now]]

\* TranscriptParser.createSummary: the value returned (or the error thrown)
createSummary(transcript, videoId) ==
  IF Len(transcript) = 0 THEN [ok |-> FALSE, error |-> "Empty transcript"]
  ELSE
    LET sel == SelectedSegments(transcript)
        summarySegments == SortBySeconds(sel.beginning \o sel.middle \o sel.end)
        paragraphs == MergeParagraphs(summarySegments)
    IN [ok |-> TRUE,
        summary |-> [title |-> "Video Summary",
                     videoId |-> videoId,
                     sections |-> SummarySections(paragraphs),
                     timestamp |-> now]]

\* one <li> per segment
ListItems(segs) ==
  [i \in 1..Len(segs) |->
     [el |-> "li", seconds |-> segs[i].seconds,
      timestamp |-> segs[i].timestamp, text |-> segs[i].text]]

\* 'YouTube Video'
DefaultTitle ==
  <<"Y", "o", "u", "T", "u", "b", "e", " ", "V", "i", "d", "e", "o">>

\* a plausible slip: the middle zone starts one segment behind the middle
\* instead of one before it
BasicZonesBehindMiddle(transcript) ==
  LET n == Len(transcript)
      middleStart == (n \div 2) + 1
  IN [beginning |-> Slice(transcript, 0, Min(BasicCount, n)),
      middle |-> Slice(transcript, Max(0, middleStart),
                       Min(middleStart + BasicCount, n)),
      end |-> Slice(transcript, Max(0, n - BasicCount), n)]

\* the beginning, middle and end segments of createBasicSummary
BasicZones(transcript) ==
  LET n == Len(transcript)
      middleStart == (n \div 2) - 1
  IN [beginning |-> Slice(transcript, 0, Min(BasicCount, n)),
      middle |-> Slice(transcript, Max(0, middleStart),
                       Min(middleStart + BasicCount, n)),
      end |-> Slice(transcript, Max(0, n - BasicCount), n)]

\* TranscriptParser.createBasicSummary: the HTML returned, element by element
createBasicSummary(transcript, videoInfo) ==
  IF Len(transcript) = 0
    THEN [ok |-> FALSE, error |-> "Invalid transcript data"]
  ELSE
    LET zones == BasicZones(transcript)
        beginning == zones.beginning
        middle == zones.middle
        end == zones.end
    IN [ok |-> TRUE,
        html |->
          << [el |-> "h3",
              text |-> IF videoInfo.title # <<>> THEN videoInfo.title
                       ELSE DefaultTitle] >>
          \o (IF videoInfo.channel # <<>>
                THEN << [el |-> "small", text |-> videoInfo.channel] >>
                ELSE <<>>)
          \o (IF videoInfo.duration # 0
                THEN << [el |-> "small",
                         text |-> formatDuration(videoInfo.duration)] >>
                ELSE <<>>)
          \o << [el |-> "h4", heading |-> "Introduction"] >>
          \o ListItems(beginning)
          \o << [el |-> "h4", heading |-> "Main Points"] >>
          \o ListItems(middle)
          \o << [el |-> "h4", heading |-> "Conclusion"] >>
          \o ListItems(end)]

(***************************************************************************)
(* Initial values of each component                                        *)
(***************************************************************************)
ClockIdle == now = 0 /\ ticks = 0

ReduceIdle ==
  /\ transcriptCache = EmptyTranscriptCache
  /\ rdFirst = <<>> /\ rdLast = <<>>
  /\ rdInput = [fn |-> "none"]

AlignIdle == alPoints = <<>> /\ alTranscript = <<>> /\ alResult = <<>>

\* an empty summaryCache object
EmptyStore == [v \in VideoIds |-> <<>>]

CacheIdle ==
  /\ parserBuild = "none"
  /\ summaryCache = EmptyStore
  /\ storageQueue = <<>>
  /\ cacheCalls = 0
  /\ cacheLastCall = [fn |-> "none"]
  /\ getDone = <<>> /\ putDone = <<>>

\* a page that is no video page and offers nothing
BlankPage ==
  [watch |-> FALSE, direct |-> FALSE, more |-> FALSE, ytpItem |-> FALSE,
   options |-> FALSE, optItem |-> FALSE]

ExtractIdle ==
  /\ contentCache = [v \in VideoIds |-> <<>>]
  /\ isExtractingTranscript = FALSE
  /\ retryCount = 0
  /\ reqPc = <<>> /\ reqVideo = <<>> /\ response = <<>>
  /\ page = BlankPage
  /\ panel = FALSE /\ rows = <<>> /\ pageRows = <<>>
  /\ menuOpen = "none" /\ controlClicked = FALSE
  /\ started = <<>> /\ clicksBy = <<>> /\ readRows = <<>>
  /\ clickLog = <<>>
  /\ arrivedBusy = {}

FormatIdle ==
  /\ fmResponse = <<>> /\ fmTranscript = <<>>
  /\ fmSummary = <<>> /\ fmShown = <<>>

PopupIdle ==
  /\ isProcessing = FALSE
  /\ ppPc = <<>> /\ ppVideo = <<>> /\ ppHeld = <<>>
  /\ ppOps = <<>> /\ ppMessage = <<>> /\ ppSawActive = <<>>
  /\ ppTimer = FALSE /\ ppTimerCall = 0 /\ ppInjected = FALSE
  /\ ppShown = <<>>
  /\ ppFallback = FALSE /\ ppAi = <<>> /\ ppError = <<>>

PromptIdle == pmInput = <<>> /\ pmPrompt = <<>>

HandlerIdle ==
  /\ mhBuild = "none" /\ mhScript = FALSE
  /\ modelLoaded = FALSE /\ modelLoading = FALSE /\ llm = "null"
  /\ mhStatus = "idle" /\ mhVia = <<>> /\ mhWasReady = FALSE
  /\ mhPc = <<>> /\ mhKind = <<>> /\ mhStep = <<>>
  /\ mhResolved = <<>> /\ mhChat = <<>>

WorkerIdle == wkSent = <<>> /\ wkHandled = 0 /\ wkPosted = <<>>

WaitIdle ==
  /\ wfPc = "none" /\ wfTimeout = 0 /\ wfElapsed = 0
  /\ wfElement = FALSE /\ wfRecords = 0
  /\ wfTimer = "none" /\ wfObserver = "none" /\ wfSettled = <<>>

(***************************************************************************)
(* Timestamp codec: decode, encode, decode                                 *)
(***************************************************************************)
\* ---- inputs of the codec check
MaxHours == 11
MinuteSamples == {0, 1, 2, 5, 9, 10, 30, 59}
SecondSamples == {0, 1, 5, 9, 10, 30, 59}

HMS == [h : 0..MaxHours, m : MinuteSamples, s : SecondSamples]

ToSeconds(t) == t.h * SecondsPerHour + t.m * SecondsPerMinute + t.s

\* the display strings a caption row can carry: M:SS, MM:SS, H:MM:SS, HH:MM:SS
DisplayOf(t, shape) ==
  CASE shape = "M:SS" ->
         NumToString(t.m) \o <<":">> \o PadStart2(NumToString(t.s))
    [] shape = "MM:SS" ->
         PadStart2(NumToString(t.m)) \o <<":">> \o PadStart2(NumToString(t.s))
    [] shape = "H:MM:SS" ->
         NumToString(t.h) \o <<":">> \o PadStart2(NumToString(t.m))
           \o <<":">> \o PadStart2(NumToString(t.s))
    [] shape = "HH:MM:SS" ->
         PadStart2(NumToString(t.h)) \o <<":">> \o PadStart2(NumToString(t.m))
           \o <<":">> \o PadStart2(NumToString(t.s))

ValidDisplays ==
  {DisplayOf(t, "M:SS") : t \in {u \in HMS : u.h = 0 /\ u.m < 10}}
  \cup {DisplayOf(t, "MM:SS") : t \in {u \in HMS : u.h = 0}}
  \cup {DisplayOf(t, "H:MM:SS") : t \in {u \in HMS : u.h < 10}}
  \cup {DisplayOf(t, "HH:MM:SS") : t \in HMS}

SecondsInputs == {ToSeconds(t) : t \in HMS}

\* timestamp labels of another shape: no colon, three colons, fields that
\* are no decimal digits
MalformedDisplays ==
  { <<>>,
    <<"5">>,
    <<"1", ":", "0", "2", ":", "0", "3", ":", "0", "4">>,
    <<"a", "b", ":", "c", "d">>,
    <<"1", ":", "x", "x">>,
    <<"x", ":", "0", "5", ":", "0", "7">> }

CodecIdle ==
  /\ cdPc = "off" /\ cdFrom = "none" /\ cdDisplay = <<>>
  /\ cdSeconds = 0 /\ cdEncoded = <<>> /\ cdRedecoded = 0

CodecInit ==
  /\ ClockIdle /\ ReduceIdle /\ AlignIdle /\ CacheIdle /\ ExtractIdle
  /\ FormatIdle /\ PopupIdle /\ WaitIdle /\ PromptIdle /\ HandlerIdle /\ WorkerIdle
  /\ cdPc = "start"
  /\ cdEncoded = <<>>
  /\ cdRedecoded = 0
  /\ \/ /\ cdFrom = "display"
        /\ cdDisplay \in ValidDisplays
        /\ cdSeconds = 0
     \/ /\ cdFrom = "malformed"
        /\ cdDisplay \in MalformedDisplays
        /\ cdSeconds = 0
     \/ /\ cdFrom = "seconds"
        /\ cdDisplay = <<>>
        /\ cdSeconds \in SecondsInputs

\* decode(display)
CodecDecode ==
  /\ cdPc = "start" /\ cdFrom \in {"display", "malformed"}
  /\ cdSeconds' = DecodeTimestamp(cdDisplay)
  /\ cdPc' = "decoded"
  /\ UNCHANGED <<cdFrom, cdDisplay, cdEncoded, cdRedecoded, codecRest>>

\* encode(seconds)
CodecEncode ==
  /\ \/ cdPc = "decoded"
     \/ cdPc = "start" /\ cdFrom = "seconds"
  /\ cdEncoded' = formatDuration(cdSeconds)
  /\ cdPc' = "encoded"
  /\ UNCHANGED <<cdFrom, cdDisplay, cdSeconds, cdRedecoded, codecRest>>

\* decode(encode(...))
CodecRedecode ==
  /\ cdPc = "encoded"
  /\ cdRedecoded' = DecodeTimestamp(cdEncoded)
  /\ cdPc' = "done"
  /\ UNCHANGED <<cdFrom, cdDisplay, cdSeconds, cdEncoded, codecRest>>

CodecNext == CodecDecode \/ CodecEncode \/ CodecRedecode

SpecCodec == CodecInit /\ [][CodecNext]_vars

\* ---- C5: for every valid display string (M:SS, MM:SS, H:MM:SS, HH:MM:SS,
\* 0:00 included) decode(encode(decode(display))) = decode(display).
RoundTripOnSeconds ==
  (cdPc = "done" /\ cdFrom = "display") => cdRedecoded = cdSeconds

\* the 0:00 case: it decodes to 0, which formatDuration renders as 'Unknown'
RoundTripZeroReached ==
  /\ cdPc = "done" /\ cdFrom = "display"
  /\ cdDisplay = <<"0", ":", "0", "0">>
  /\ cdEncoded = Unknown

\* ---- C6: encode is the inverse of decode and yields a colon-separated
\* display: no hour field when the hour is zero, the seconds field always two
\* digits, the minutes field two digits behind an hour field, the leading
\* field unpadded; encode(65) = "1:05", encode(3725) = "1:02:05".
IsDisplayOf(enc, s) ==
  LET parts == Split(enc, ":")
  IN /\ \A i \in 1..Len(enc) : IsDigit(enc[i]) \/ enc[i] = ":"
     /\ Len(parts) = (IF s < SecondsPerHour THEN 2 ELSE 3)
     /\ \A i \in 2..Len(parts) : Len(parts[i]) = 2
     /\ Len(parts[1]) >= 1
     /\ (Len(parts[1]) > 1 => parts[1][1] # "0")

EncodeExamples ==
  /\ cdSeconds = 65 => cdEncoded = <<"1", ":", "0", "5">>
  /\ cdSeconds = 3725 => cdEncoded = <<"1", ":", "0", "2", ":", "0", "5">>

\* the claim as stated, for every s >= 0
EncodeInvertsDecode ==
  (cdPc = "done" /\ cdFrom = "seconds") =>
     /\ cdRedecoded = cdSeconds
     /\ IsDisplayOf(cdEncoded, cdSeconds)
     /\ EncodeExamples

\* the claim for s >= 1; formatDuration(0) is 'Unknown'
EncodeInvertsDecodeFromOne ==
  (cdPc = "done" /\ cdFrom = "seconds") =>
     /\ cdRedecoded = cdSeconds
     /\ cdSeconds >= 1 => IsDisplayOf(cdEncoded, cdSeconds) /\ EncodeExamples
     /\ cdSeconds = 0 => cdEncoded = Unknown

EncodeExampleReached ==
  /\ cdPc = "done" /\ cdFrom = "seconds"
  /\ cdSeconds = 3725
  /\ cdEncoded = <<"1", ":", "0", "2", ":", "0", "5">>
  /\ cdRedecoded = 3725

\* ---- C13 as stated: decode yields m*60+s for 2 parts, h*3600+m*60+s for
\* 3 parts and 0 for every other shape; the seconds of every label, of
\* whatever shape, are an integer >= 0.
DecodeYieldsSeconds ==
  (cdPc = "decoded" /\ cdFrom \in {"display", "malformed"}) =>
     /\ cdSeconds # NaN
     /\ cdSeconds >= 0
     /\ Len(Split(cdDisplay, ":")) \notin {2, 3} => cdSeconds = 0
     /\ \A t \in HMS :
          cdDisplay \in {DisplayOf(t, "HH:MM:SS"), DisplayOf(t, "MM:SS")}
            => cdSeconds \in {ToSeconds(t), ToSeconds([t EXCEPT !.h = 0])}

\* a label of four parts was decoded to 0
FourPartsDecoded ==
  /\ cdPc = "decoded" /\ cdFrom = "malformed"
  /\ Len(Split(cdDisplay, ":")) = 4
  /\ cdSeconds = 0

(***************************************************************************)
(* Summary reducers: repeated calls on one input, with other calls and     *)
(* clock steps in between                                                  *)
(***************************************************************************)
MaxSegments == 7
MaxTicks == 1

\* the caption row texts: w0, w1, ...
SegmentText(i) == <<"w">> \o NumToString(i)

StampOf(sec) ==
  NumToString(sec \div SecondsPerMinute) \o <<":">>
    \o PadStart2(NumToString(sec % SecondsPerMinute))

SecondsAt(pat, n, i) ==
  CASE pat = "asc" -> (i - 1) * 7
    [] pat = "blank" -> (i - 1) * 7
    [] pat = "ties" -> ((i - 1) \div 2) * 65
    [] pat = "desc" -> (n - i) * 7

\* a transcript as the extractor returns it: n segments in row order
MakeTranscript(n, pat) ==
  [i \in 1..n |->
     [text |-> IF pat = "blank" THEN <<>> ELSE SegmentText(i - 1),
      timestamp |-> StampOf(SecondsAt(pat, n, i)),
      seconds |-> SecondsAt(pat, n, i),
      index |-> i - 1]]

TranscriptInputs ==
  {MakeTranscript(n, "asc") : n \in (0..MaxSegments) \cup {18, 48}}
  \cup {MakeTranscript(n, "ties") : n \in {2, 4, 7}}
  \cup {MakeTranscript(n, "desc") : n \in {3, 6}}
  \cup {MakeTranscript(n, "blank") : n \in {2, 6}}

VideoInfoInputs ==
  { [title |-> <<"T">>, channel |-> <<"C">>, duration |-> 65],
    [title |-> <<>>, channel |-> <<>>, duration |-> 0] }

\* the transcripts of the calls made in between
OtherTranscripts == {MakeTranscript(6, "desc")}

ReduceInit ==
  /\ CodecIdle /\ ClockIdle /\ AlignIdle /\ CacheIdle /\ ExtractIdle
  /\ FormatIdle /\ PopupIdle /\ WaitIdle /\ PromptIdle /\ HandlerIdle /\ WorkerIdle
  /\ transcriptCache = EmptyTranscriptCache
  /\ rdFirst = <<>> /\ rdLast = <<>>
  /\ \/ \E t \in TranscriptInputs, v \in VideoIds :
          rdInput = [fn |-> "createSummary", transcript |-> t, meta |-> v]
     \/ \E t \in TranscriptInputs, info \in VideoInfoInputs :
          rdInput = [fn |-> "createBasicSummary", transcript |-> t,
                     meta |-> info]

\* the first call is kept as the reference, every later one as the latest
Recorded(out) ==
  /\ rdFirst' = IF rdFirst = <<>> THEN <<[at |-> now, out |-> out]>> ELSE rdFirst
  /\ rdLast' = IF rdFirst = <<>> THEN rdLast ELSE <<[at |-> now, out |-> out]>>

\* TranscriptParser.createSummary(transcript, videoId) on the input under test
CreateSummary ==
  /\ rdInput.fn = "createSummary"
  /\ LET out == createSummary(rdInput.transcript, rdInput.meta)
     IN /\ Recorded(out)
        /\ transcriptCache' =
             IF out.ok
               THEN CachePut(rdInput.meta,
                             [CacheEntryOf(rdInput.meta) EXCEPT
                                !.summary = <<out.summary>>])
               ELSE transcriptCache
  /\ UNCHANGED <<rdInput, clockVars, reduceRest>>

\* TranscriptParser.createSummary on another transcript
CreateSummaryOther ==
  /\ \E t \in OtherTranscripts, v \in VideoIds :
       LET out == createSummary(t, v)
       IN transcriptCache' =
            IF out.ok
              THEN CachePut(v, [CacheEntryOf(v) EXCEPT
                                  !.summary = <<out.summary>>])
              ELSE transcriptCache
  /\ UNCHANGED <<rdFirst, rdLast, rdInput, clockVars, reduceRest>>

\* TranscriptParser.createBasicSummary(transcript, videoInfo) on the input
CreateBasicSummary ==
  /\ rdInput.fn = "createBasicSummary"
  /\ Recorded(createBasicSummary(rdInput.transcript, rdInput.meta))
  /\ UNCHANGED <<transcriptCache, rdInput, clockVars, reduceRest>>

\* a millisecond passes
ReduceTick ==
  /\ ticks < MaxTicks
  /\ now' = now + 1
  /\ ticks' = ticks + 1
  /\ UNCHANGED <<reduceVars, reduceRest>>

ReduceNext ==
  CreateSummary \/ CreateSummaryOther \/ CreateBasicSummary \/ ReduceTick

SpecReduce == ReduceInit /\ [][ReduceNext]_vars

\* what of a reducer result is summary content: everything but the
\* generation timestamp of the summary object
ContentOf(out) ==
  IF out.ok /\ "summary" \in DOMAIN out
    THEN [title |-> out.summary.title,
          videoId |-> out.summary.videoId,
          sections |-> out.summary.sections]
    ELSE out

BothRecorded == rdFirst # <<>> /\ rdLast # <<>>

\* ---- C7 as stated: two calls of the positional-sampling reducers with the
\* same transcript and the same video metadata return identical summaries,
\* whatever happened between the calls.
ReduceOutputIdentical ==
  BothRecorded => rdFirst[1].out = rdLast[1].out

\* ---- C7: two calls with the same transcript and the same video metadata
\* return the same title, videoId and sections (createSummary) and the same
\* HTML (createBasicSummary), whatever calls and clock steps lie in between;
\* only the timestamp field of the summary object follows the clock.
ReduceContentDeterministic ==
  BothRecorded =>
    /\ ContentOf(rdFirst[1].out) = ContentOf(rdLast[1].out)
    /\ rdInput.fn = "createBasicSummary" => rdFirst[1].out = rdLast[1].out

\* two createSummary calls at different times, with another video summary
\* cached for the same video after the second one
ReduceRepeatedLater ==
  /\ BothRecorded
  /\ rdInput.fn = "createSummary"
  /\ Len(rdInput.transcript) = 48
  /\ rdFirst[1].at < rdLast[1].at
  /\ rdLast[1].out.ok
  /\ transcriptCache[rdInput.meta].summary # <<rdLast[1].out.summary>>

SectionTitles(sections) == [i \in 1..Len(sections) |-> sections[i].title]

ThreeSections(out) ==
  /\ out.ok <=> Len(rdInput.transcript) > 0
  /\ out.ok =>
       /\ Len(out.summary.sections) = 3
       /\ SectionTitles(out.summary.sections)
            = <<"Introduction", "Main Points", "Conclusion">>

\* ---- C10: createSummary fails only for the empty transcript; for every
\* non-empty transcript (1, 2 or 3 segments included) it returns exactly the
\* three sections Introduction, Main Points, Conclusion, in this order.
CreateSummaryThreeSections ==
  rdInput.fn = "createSummary" =>
    /\ rdFirst # <<>> => ThreeSections(rdFirst[1].out)
    /\ rdLast # <<>> => ThreeSections(rdLast[1].out)

\* a one-segment transcript was summarised: its only paragraph is the
\* Introduction
OneSegmentSummarised ==
  /\ rdInput.fn = "createSummary"
  /\ Len(rdInput.transcript) = 1
  /\ rdFirst # <<>>
  /\ rdFirst[1].out.ok
  /\ Len(rdFirst[1].out.summary.sections[1].paragraphs) = 1
  /\ rdFirst[1].out.summary.sections[3].paragraphs = <<>>

\* the <li> elements that follow the <h4> of a zone in the HTML
ZoneItems(html, heading) ==
  LET at == CHOOSE k \in 1..Len(html) :
              html[k].el = "h4" /\ html[k].heading = heading
      next == IF \E k \in (at + 1)..Len(html) : html[k].el = "h4"
                THEN CHOOSE k \in (at + 1)..Len(html) :
                       /\ html[k].el = "h4"
                       /\ \A j \in (at + 1)..(k - 1) : html[j].el # "h4"
                ELSE Len(html) + 1
  IN SubSeq(html, at + 1, next - 1)

\* the items are those of 1 to 3 segments at increasing positions inside
\* the transcript
ZoneOfTranscript(items, transcript) ==
  /\ Len(items) \in 1..BasicCount
  /\ \E from \in 1..Len(transcript) :
       /\ from + Len(items) - 1 <= Len(transcript)
       /\ items = ListItems(SubSeq(transcript, from, from + Len(items) - 1))

\* ---- C39: for every non-empty transcript of n segments createBasicSummary
\* selects without error between 1 and 3 segments for each of Introduction,
\* Main Points and Conclusion, all with positions inside [0, n) and in
\* transcript order within each zone; for short transcripts the zones
\* overlap instead of failing.
BasicZonesWithinTranscript ==
  (rdInput.fn = "createBasicSummary" /\ rdFirst # <<>>
     /\ Len(rdInput.transcript) > 0) =>
    /\ rdFirst[1].out.ok
    /\ \A heading \in {"Introduction", "Main Points", "Conclusion"} :
         ZoneOfTranscript(ZoneItems(rdFirst[1].out.html, heading),
                          rdInput.transcript)

\* the basic summary of a transcript of two segments: each of the three
\* zones holds both of them
ShortTranscriptZonesOverlap ==
  /\ rdInput.fn = "createBasicSummary"
  /\ rdInput.transcript = MakeTranscript(2, "asc")
  /\ rdFirst # <<>>
  /\ rdFirst[1].out.ok
  /\ \A heading \in {"Introduction", "Main Points", "Conclusion"} :
       ZoneItems(rdFirst[1].out.html, heading)
         = ListItems(rdInput.transcript)

\* the paragraphs of all sections of a summary, in order
AllParagraphs(summary) ==
  summary.sections[1].paragraphs \o summary.sections[2].paragraphs
    \o summary.sections[3].paragraphs

\* the segment texts merged into a paragraph, in order
MergedTexts(paragraph) ==
  SelectSeq(Split(paragraph.text, " "), LAMBDA w : w # <<>>)

\* createSummary has returned a summary for the input
Summarised ==
  /\ rdInput.fn = "createSummary"
  /\ rdFirst # <<>>
  /\ rdFirst[1].out.ok

\* ---- C34: in the summary returned by createSummary, every paragraph
\* carries the timestamp display and seconds of the first segment merged
\* into it, including the first paragraph of the summary.
ParagraphCarriesFirstStamp ==
  Summarised =>
    LET paragraphs == AllParagraphs(rdFirst[1].out.summary)
    IN \A k \in 1..Len(paragraphs) :
         \A i \in 1..Len(rdInput.transcript) :
           rdInput.transcript[i].text = MergedTexts(paragraphs[k])[1] =>
             /\ paragraphs[k].timestamp = rdInput.transcript[i].timestamp
             /\ paragraphs[k].seconds = rdInput.transcript[i].seconds

\* the summary of the 18 segments w0..w17: its second paragraph carries the
\* stamp of w5, its first one the empty timestamp and 0 seconds instead of
\* the stamp of w0
FirstParagraphUnstamped ==
  /\ Summarised
  /\ rdInput.transcript = MakeTranscript(18, "asc")
  /\ LET paragraphs == AllParagraphs(rdFirst[1].out.summary)
     IN /\ MergedTexts(paragraphs[1])[1] = SegmentText(0)
        /\ rdInput.transcript[1].timestamp = StampOf(0)
        /\ paragraphs[1].timestamp = <<>>
        /\ MergedTexts(paragraphs[2])[1] = SegmentText(5)
        /\ paragraphs[2].timestamp = rdInput.transcript[6].timestamp

\* the positions (index fields) of the segments of a block
PositionsOf(block) == {block[i].index : i \in 1..Len(block)}

\* the blocks selected from the input are pairwise disjoint
BlocksDisjoint ==
  LET sel == SelectedSegments(rdInput.transcript)
  IN /\ PositionsOf(sel.beginning) \cap PositionsOf(sel.middle) = {}
     /\ PositionsOf(sel.beginning) \cap PositionsOf(sel.end) = {}
     /\ PositionsOf(sel.middle) \cap PositionsOf(sel.end) = {}
     /\ Cardinality(PositionsOf(sel.beginning \o sel.middle \o sel.end))
          = Len(sel.beginning) + Len(sel.middle) + Len(sel.end)

\* how often a text was merged into the paragraphs of the summary
TimesMerged(text, summary) ==
  LET paragraphs == AllParagraphs(summary)
  IN Cardinality({<<k, j>> \in (1..Len(paragraphs)) \X (1..ParagraphSize) :
                    /\ j <= Len(MergedTexts(paragraphs[k]))
                    /\ MergedTexts(paragraphs[k])[j] = text})

\* ---- C35 as stated: for every transcript of n >= 1 pairwise distinct
\* segments the beginning, middle and end blocks selected by createSummary
\* are pairwise disjoint, and every selected segment's text lands in exactly
\* one paragraph of exactly one section.
EverySegmentLandsOnce ==
  Summarised =>
    /\ BlocksDisjoint
    /\ LET sel == SelectedSegments(rdInput.transcript)
           all == sel.beginning \o sel.middle \o sel.end
       IN \A i \in 1..Len(all) :
            TimesMerged(all[i].text, rdFirst[1].out.summary) = 1

\* ---- C35: for every transcript of n >= 1 pairwise distinct segments the
\* beginning, middle and end blocks selected by createSummary are pairwise
\* disjoint (no segment is included twice), and the text of every selected
\* segment that is not blank lands in exactly one paragraph of exactly one
\* section; a paragraph of blank texts only is left out.
SelectedSegmentLandsOnce ==
  Summarised =>
    /\ BlocksDisjoint
    /\ LET sel == SelectedSegments(rdInput.transcript)
           all == sel.beginning \o sel.middle \o sel.end
       IN \A i \in 1..Len(all) :
            IF Trim(all[i].text) # <<>>
              THEN TimesMerged(all[i].text, rdFirst[1].out.summary) = 1
              ELSE AllParagraphs(rdFirst[1].out.summary) = <<>>

\* seven segments with distinct texts were summarised from the blocks
\* {0, 1}, {2, 3} and {5, 6}, which went into two paragraphs
SixOfSevenSelected ==
  /\ Summarised
  /\ rdInput.transcript = MakeTranscript(7, "asc")
  /\ LET sel == SelectedSegments(rdInput.transcript)
     IN /\ PositionsOf(sel.beginning) = {0, 1}
        /\ PositionsOf(sel.middle) = {2, 3}
        /\ PositionsOf(sel.end) = {5, 6}
  /\ Len(AllParagraphs(rdFirst[1].out.summary)) = 2
  /\ TimesMerged(SegmentText(4), rdFirst[1].out.summary) = 0

(***************************************************************************)
(* Keyword aligner (model-loader): addTimestampsToPoints                   *)
(***************************************************************************)
Upper ==
  <<"A", "B", "C", "D", "E", "F", "G", "H", "I", "J", "K", "L", "M",
    "N", "O", "P", "Q", "R", "S", "T", "U", "V", "W", "X", "Y", "Z">>
Lower ==
  <<"a", "b", "c", "d", "e", "f", "g", "h", "i", "j", "k", "l", "m",
    "n", "o", "p", "q", "r", "s", "t", "u", "v", "w", "x", "y", "z">>

LowerChar(c) ==
  IF \E i \in 1..Len(Upper) : Upper[i] = c
    THEN Lower[CHOOSE i \in 1..Len(Upper) : Upper[i] = c]
    ELSE c

\* String.prototype.toLowerCase
ToLowerCase(s) == [i \in 1..Len(s) |-> LowerChar(s[i])]

\* \s of the regular expression
IsSpace(c) == c \in {" ", "\t", "\n"}

\* the positions at which a run of non-space characters starts
WordStarts(s) ==
  {i \in 1..Len(s) : ~IsSpace(s[i]) /\ (i = 1 \/ IsSpace(s[i - 1]))}

\* the run of non-space characters that starts at position i
WordAt(s, i) ==
  SubSeq(s, i,
         CHOOSE j \in i..Len(s) :
           /\ \A k \in i..j : ~IsSpace(s[k])
           /\ j = Len(s) \/ IsSpace(s[j + 1]))

\* String.prototype.split(/\s+/): the runs of non-space characters in
\* order, with an empty string in front of leading white space and behind
\* trailing white space
SplitSpaces(s) ==
  LET starts == WordStarts(s)
      nth(k) == CHOOSE i \in starts :
                  Cardinality({j \in starts : j < i}) = k - 1
  IN (IF s = <<>> \/ IsSpace(s[1]) THEN << <<>> >> ELSE <<>>)
       \o [k \in 1..Cardinality(starts) |-> WordAt(s, nth(k))]
       \o (IF s # <<>> /\ IsSpace(s[Len(s)]) THEN << <<>> >> ELSE <<>>)

MinKeywordLength == 5
HitThreshold == 2

\* the characters of /[.,;!?()]/
Punctuation == {".", ",", ";", "!", "?", "(", ")"}

IsKeywordLength(word) == Len(word) >= MinKeywordLength
NotPunctuation(c) == c \notin Punctuation

\* word.replace(/[.,;!?()]/g, '')
StripPunctuation(word) == SelectSeq(word, NotPunctuation)

\* the keywords of a point: its lower-cased words of at least 5 characters,
\* each then stripped of punctuation
Keywords(point) ==
  LET long == SelectSeq(SplitSpaces(ToLowerCase(point)), IsKeywordLength)
  IN [k \in 1..Len(long) |-> StripPunctuation(long[k])]

\* String.prototype.includes
Includes(text, keyword) ==
  \E i \in 0..(Len(text) - Len(keyword)) :
    SubSeq(text, i + 1, i + Len(keyword)) = keyword

\* keywords.filter(keyword => lowercaseText.includes(keyword)).length
MatchCount(keywords, segment) ==
  Cardinality({k \in 1..Len(keywords) :
                 Includes(ToLowerCase(segment.text), keywords[k])})

\* a plausible slip: >= for >, by which the last of equal segments wins
BetterMatchOrEqual(matchCount, bestMatchCount) == matchCount >= bestMatchCount

\* if (matchCount > bestMatchCount)
BetterMatch(matchCount, bestMatchCount) == matchCount > bestMatchCount

\* transcript.forEach from the k-th segment on; best = [index, count]
RECURSIVE BestMatch(_, _, _, _)
BestMatch(transcript, keywords, k, best) ==
  IF k > Len(transcript) THEN best
  ELSE LET matchCount == MatchCount(keywords, transcript[k])
       IN BestMatch(transcript, keywords, k + 1,
                    IF BetterMatch(matchCount, best.count)
                      THEN [index |-> k - 1, count |-> matchCount]
                      ELSE best)

\* a plausible slip: one hit is always enough
AcceptThresholdOne(numKeywords) == Min(1, numKeywords)

\* Math.min(2, keywords.length)
AcceptThreshold(numKeywords) == Min(HitThreshold, numKeywords)

\* the body of points.forEach; a null timestamp is <<>>
AlignPoint(point, transcript) ==
  LET keywords == Keywords(point)
      best == BestMatch(transcript, keywords, 1, [index |-> -1, count |-> 0])
  IN IF /\ Len(keywords) > 0
        /\ best.index >= 0
        /\ best.count >= AcceptThreshold(Len(keywords))
       THEN [text |-> point,
             timestamp |-> <<transcript[best.index + 1].timestamp>>,
             seconds |-> transcript[best.index + 1].seconds]
       ELSE [text |-> point, timestamp |-> <<>>, seconds |-> 0]

\* ModelHandler.addTimestampsToPoints
addTimestampsToPoints(points, transcript) ==
  [i \in 1..Len(points) |-> AlignPoint(points[i], transcript)]

(***************************************************************************)
(* Keyword aligner: one call on bounded points and transcripts             *)
(***************************************************************************)
MaxAlignSegments == 3

\* 'today we discuss machine learning basics'
TextBasics ==
  <<"t", "o", "d", "a", "y", " ", "w", "e", " ", "d", "i", "s", "c", "u",
    "s", "s", " ", "m", "a", "c", "h", "i", "n", "e", " ", "l", "e", "a",
    "r", "n", "i", "n", "g", " ", "b", "a", "s", "i", "c", "s">>
\* 'later we explore neural networks deeply'
TextDeeply ==
  <<"l", "a", "t", "e", "r", " ", "w", "e", " ", "e", "x", "p", "l", "o",
    "r", "e", " ", "n", "e", "u", "r", "a", "l", " ", "n", "e", "t", "w",
    "o", "r", "k", "s", " ", "d", "e", "e", "p", "l", "y">>
\* 'Neural NETWORKS'
TextUpper ==
  <<"N", "e", "u", "r", "a", "l", " ", "N", "E", "T", "W", "O", "R", "K",
    "S">>
\* 'going deeply'
TextShort ==
  <<"g", "o", "i", "n", "g", " ", "d", "e", "e", "p", "l", "y">>

AlignTexts == {TextBasics, TextDeeply, TextUpper, TextShort}

\* 'neural networks explained deeply'
PointNeural ==
  <<"n", "e", "u", "r", "a", "l", " ", "n", "e", "t", "w", "o", "r", "k",
    "s", " ", "e", "x", "p", "l", "a", "i", "n", "e", "d", " ", "d", "e",
    "e", "p", "l", "y">>
\* 'machine learning'
PointMachine ==
  <<"m", "a", "c", "h", "i", "n", "e", " ", "l", "e", "a", "r", "n", "i",
    "n", "g">>
\* 'deeply'
PointDeeply ==
  <<"d", "e", "e", "p", "l", "y">>
\* 'a fox'
PointShortWords ==
  <<"a", " ", "f", "o", "x">>
\* 'quantum physics explained'
PointQuantum ==
  <<"q", "u", "a", "n", "t", "u", "m", " ", "p", "h", "y", "s", "i", "c",
    "s", " ", "e", "x", "p", "l", "a", "i", "n", "e", "d">>
\* 'Machine, vision'
PointVision ==
  <<"M", "a", "c", "h", "i", "n", "e", ",", " ", "v", "i", "s", "i", "o",
    "n">>
\* 'Deeply<tab>NEURAL'
PointUpper ==
  <<"D", "e", "e", "p", "l", "y", "\t", "N", "E", "U", "R", "A", "L">>
\* ' (basics) learning. '
PointBasics ==
  <<" ", "(", "b", "a", "s", "i", "c", "s", ")", " ", "l", "e", "a", "r",
    "n", "i", "n", "g", ".", " ">>
\* '.....'
PointDots ==
  <<".", ".", ".", ".", ".">>

AlignPoints ==
  {PointNeural, PointMachine, PointDeeply, PointShortWords, PointQuantum,
   PointVision, PointUpper, PointBasics, PointDots}

\* the lists of key points: one point, or two
PointLists ==
  {<<p>> : p \in AlignPoints} \cup {<<PointNeural, p>> : p \in AlignPoints}

\* the i-th caption row starts 65 seconds after the one before
RowSeconds(i) == (i - 1) * 65

\* a transcript with the given row texts, in chronological order
TranscriptOf(rowTexts) ==
  [i \in 1..Len(rowTexts) |->
     [text |-> rowTexts[i],
      timestamp |-> StampOf(RowSeconds(i)),
      seconds |-> RowSeconds(i),
      index |-> i - 1]]

\* two segments, at 0:10 and at 3:20
ExampleTranscript ==
  << [text |-> TextBasics, timestamp |-> StampOf(10), seconds |-> 10,
      index |-> 0],
     [text |-> TextDeeply, timestamp |-> StampOf(200), seconds |-> 200,
      index |-> 1] >>

AlignTranscripts ==
  {ExampleTranscript}
    \cup UNION { {TranscriptOf(rowTexts) : rowTexts \in [1..n -> AlignTexts]} :
                 n \in 0..MaxAlignSegments }

AlignInit ==
  /\ CodecIdle /\ ClockIdle /\ ReduceIdle /\ CacheIdle /\ ExtractIdle
  /\ FormatIdle /\ PopupIdle /\ WaitIdle /\ PromptIdle /\ HandlerIdle /\ WorkerIdle
  /\ alPoints \in PointLists
  /\ alTranscript \in AlignTranscripts
  /\ alResult = <<>>

\* addTimestampsToPoints(points, transcript) returns
AddTimestampsToPoints ==
  /\ alPoints # <<>>
  /\ alResult = <<>>
  /\ alResult' = <<addTimestampsToPoints(alPoints, alTranscript)>>
  /\ UNCHANGED <<alPoints, alTranscript, alignRest>>

AlignNext == AddTimestampsToPoints

SpecAlign == AlignInit /\ [][AlignNext]_vars

\* the number of keywords of the point that occur in the j-th segment
HitsIn(point, j) == MatchCount(Keywords(point), alTranscript[j])

\* the highest number of hits of a segment, 0 for no segment
MaxHits(point) ==
  LET counts == {HitsIn(point, j) : j \in 1..Len(alTranscript)} \cup {0}
  IN CHOOSE m \in counts : \A c \in counts : c <= m

\* the segments with the highest number of hits
TopSegments(point) ==
  {j \in 1..Len(alTranscript) : HitsIn(point, j) = MaxHits(point)}

\* the chronologically first of the segments with the highest number of hits
FirstTopSegment(point) ==
  CHOOSE j \in TopSegments(point) :
    \A k \in TopSegments(point) :
      k # j => alTranscript[j].seconds < alTranscript[k].seconds

\* ---- C8: a point that gets a timestamp gets the one of the segment with
\* the highest number of keyword hits, and among segments with the same
\* highest number the one of the chronologically first; the point "neural
\* networks explained deeply" gets seconds 200 in the two-segment example.
AlignSelectsFirstBest ==
  alResult # <<>> =>
    /\ \A i \in 1..Len(alPoints) :
         LET r == alResult[1][i]
         IN r.timestamp # <<>> =>
              LET j == FirstTopSegment(alPoints[i])
              IN /\ r.timestamp = <<alTranscript[j].timestamp>>
                 /\ r.seconds = alTranscript[j].seconds
    /\ (alPoints = <<PointNeural>> /\ alTranscript = ExampleTranscript) =>
         /\ alResult[1][1].seconds = 200
         /\ alResult[1][1].timestamp = << <<"3", ":", "2", "0">> >>

\* two segments share the highest number of hits and the earlier one was
\* selected
AlignTieReached ==
  /\ alResult # <<>>
  /\ Len(alPoints) = 1
  /\ Cardinality(TopSegments(alPoints[1])) >= 2
  /\ MaxHits(alPoints[1]) = 2
  /\ alResult[1][1].timestamp # <<>>
  /\ \E k \in TopSegments(alPoints[1]) :
       alTranscript[k].seconds > alResult[1][1].seconds

\* ---- C9: a point gets a timestamp exactly if it has a keyword and the
\* highest number of hits of a segment is at least min(2, number of
\* keywords); every other point gets a null timestamp (and seconds 0).
AlignAcceptsAtThreshold ==
  alResult # <<>> =>
    \A i \in 1..Len(alPoints) :
      LET r == alResult[1][i]
          numKeywords == Len(Keywords(alPoints[i]))
          accepted ==
            /\ numKeywords > 0
            /\ MaxHits(alPoints[i]) >= (IF numKeywords < 2 THEN numKeywords
                                        ELSE 2)
      IN /\ r.timestamp # <<>> <=> accepted
         /\ r.timestamp = <<>> => r.seconds = 0
         /\ r.text = alPoints[i]

\* a point with two keywords of which a segment holds one: no match
AlignBelowThresholdReached ==
  /\ alResult # <<>>
  /\ Len(alPoints) = 1
  /\ Len(Keywords(alPoints[1])) = 2
  /\ MaxHits(alPoints[1]) = 1
  /\ alResult[1][1].timestamp = <<>>

(***************************************************************************)
(* Summary cache (transcript-parser, two files) over chrome.storage.local  *)
(***************************************************************************)
\* 7 * 24 * 60 * 60 * 1000
RetentionMs == 7 * 24 * 60 * 60 * 1000

\* cache[key].expiration < Date.now(); undefined < n is false
IsExpired(entry, t) == "expiration" \in DOMAIN entry /\ entry.expiration < t

\* Object.keys(cache).forEach(key => { if (expired) delete cache[key] })
Sweep(cache, t) ==
  [k \in VideoIds |->
     IF cache[k] # <<>> /\ IsExpired(cache[k][1], t) THEN <<>> ELSE cache[k]]

\* the object the callback of saveToCache hands to storage.set (first file)
SavedExpiring(cache, videoId, videoInfo, summary, t) ==
  Sweep([cache EXCEPT ![videoId] =
           << [videoInfo |-> videoInfo,
               summary |-> summary,
               timestamp |-> t,
               expiration |-> t + RetentionMs] >>],
        t)

\* the object the callback of saveToCache hands to storage.set (second file)
SavedMemo(cache, videoId, summary) ==
  [cache EXCEPT ![videoId] = <<summary>>]

\* a plausible slip: an entry whose expiration has passed is not returned
FoundIfFresh(cache, videoId, t) ==
  IF cache[videoId] # <<>> /\ IsExpired(cache[videoId][1], t) THEN <<>>
  ELSE cache[videoId]

\* cache[videoId] in the callback of a lookup: <<>> for undefined
FoundBy(cache, videoId, t) == cache[videoId]

\* chrome.storage.local.get / set: the request joins the queue
Request(req) == storageQueue' = Append(storageQueue, req)

\* the saves that have not been applied to the store yet
SavesInFlight ==
  {i \in 1..Len(storageQueue) : storageQueue[i].cb.kind \in {"save", "saved"}}

\* the videos of the saves that have read the store and whose storage.set
\* has not been applied yet
ReadNotWritten ==
  {storageQueue[i].cb.videoId :
     i \in {j \in SavesInFlight : storageQueue[j].cb.kind = "saved"}}

(***************************************************************************)
(* Summary cache: bounded calls, storage answers and clock steps           *)
(***************************************************************************)
MaxCacheCalls == 3
MaxCacheTicks == 2
MaxLongWaits == 1

Summaries == {[content |-> "s1"], [content |-> "s2"]}
VideoInfos == {[title |-> "T"]}

CacheInit ==
  /\ CodecIdle /\ ClockIdle /\ ReduceIdle /\ AlignIdle /\ ExtractIdle
  /\ FormatIdle /\ PopupIdle /\ WaitIdle /\ PromptIdle /\ HandlerIdle /\ WorkerIdle
  /\ parserBuild \in {"expiring", "memo", "popup"}
  /\ summaryCache = EmptyStore
  /\ storageQueue = <<>>
  /\ cacheCalls = 0
  /\ cacheLastCall = [fn |-> "none"]
  /\ getDone = <<>> /\ putDone = <<>>

\* TranscriptParser.saveToCache: (videoId, videoInfo, summary) in the first
\* file, (videoId, summary) in the second; it returns before storage answers
SaveToCache ==
  /\ cacheCalls < MaxCacheCalls
  /\ \E videoId \in VideoIds, videoInfo \in VideoInfos, summary \in Summaries :
       /\ Request([op |-> "get",
                   cb |-> [kind |-> "save", videoId |-> videoId,
                           videoInfo |-> videoInfo, summary |-> summary]])
       /\ transcriptCache' =
            IF parserBuild = "memo"
              THEN CachePut(videoId, [CacheEntryOf(videoId) EXCEPT
                                        !.summary = <<summary>>])
              ELSE transcriptCache
       /\ cacheLastCall' = [fn |-> "saveToCache", videoId |-> videoId,
                            summary |-> summary]
  /\ cacheCalls' = cacheCalls + 1
  /\ UNCHANGED <<parserBuild, summaryCache, getDone, putDone, clockVars,
                 cacheRest>>

\* what a lookup made right now has to return: the summary of the save made
\* just before it for the same video, if that save is the only one in flight
ExpectedBy(videoId) ==
  IF /\ cacheLastCall.fn = "saveToCache"
     /\ cacheLastCall.videoId = videoId
     /\ Cardinality(SavesInFlight) = 1
    THEN <<cacheLastCall.summary>>
    ELSE <<>>

\* TranscriptParser.getCachedSummary(videoId), up to its first wait
GetCachedSummary ==
  /\ cacheCalls < MaxCacheCalls
  /\ \E videoId \in VideoIds :
       IF parserBuild = "memo" /\ CacheEntryOf(videoId).summary # <<>>
         THEN /\ getDone' = << [videoId |-> videoId,
                                expect |-> ExpectedBy(videoId),
                                result |-> CacheEntryOf(videoId).summary,
                                issued |-> now, at |-> now,
                                fromStore |-> FALSE,
                                before |-> summaryCache,
                                after |-> summaryCache] >>
              /\ UNCHANGED storageQueue
         ELSE /\ Request([op |-> "get",
                          cb |-> [kind |-> "lookup", videoId |-> videoId,
                                  expect |-> ExpectedBy(videoId),
                                  issued |-> now]])
              /\ UNCHANGED getDone
  /\ cacheLastCall' = [fn |-> "getCachedSummary"]
  /\ cacheCalls' = cacheCalls + 1
  /\ UNCHANGED <<parserBuild, summaryCache, putDone, transcriptCache,
                 clockVars, cacheRest>>

\* storage answers the get of a saveToCache; its callback builds the new
\* summaryCache object and hands it to storage.set
StorageGetForSave ==
  /\ storageQueue # <<>>
  /\ Head(storageQueue).op = "get"
  /\ Head(storageQueue).cb.kind = "save"
  /\ LET cb == Head(storageQueue).cb
         cache == IF parserBuild = "expiring"
                    THEN SavedExpiring(summaryCache, cb.videoId, cb.videoInfo,
                                       cb.summary, now)
                    ELSE SavedMemo(summaryCache, cb.videoId, cb.summary)
     IN storageQueue' =
          Append(Tail(storageQueue),
                 [op |-> "set", value |-> cache,
                  cb |-> [kind |-> "saved", videoId |-> cb.videoId,
                          created |-> now,
                          alone |-> Cardinality(SavesInFlight) = 1,
                          with |-> ReadNotWritten]])
  /\ cacheLastCall' = [fn |-> "none"]
  /\ UNCHANGED <<parserBuild, summaryCache, cacheCalls, getDone, putDone,
                 transcriptCache, clockVars, cacheRest>>

\* storage answers the get of a getCachedSummary; its callback resolves the
\* promise (and, in the second file, fills transcriptCache)
StorageGetForLookup ==
  /\ storageQueue # <<>>
  /\ Head(storageQueue).op = "get"
  /\ Head(storageQueue).cb.kind = "lookup"
  /\ UNCHANGED summaryCache
  /\ LET cb == Head(storageQueue).cb
         found == FoundBy(summaryCache, cb.videoId, now)
     IN /\ getDone' = << [videoId |-> cb.videoId, expect |-> cb.expect,
                          result |-> found, issued |-> cb.issued,
                          at |-> now,
                          fromStore |-> TRUE,
                          before |-> summaryCache,
                          after |-> summaryCache'] >>
        /\ transcriptCache' =
             IF parserBuild = "memo" /\ found # <<>>
               THEN CachePut(cb.videoId, [CacheEntryOf(cb.videoId) EXCEPT
                                            !.summary = found])
               ELSE transcriptCache
  /\ storageQueue' = Tail(storageQueue)
  /\ cacheLastCall' = [fn |-> "none"]
  /\ UNCHANGED <<parserBuild, cacheCalls, putDone, clockVars, cacheRest>>

\* storage applies the set of a saveToCache: the save is complete
StorageSet ==
  /\ storageQueue # <<>>
  /\ Head(storageQueue).op = "set"
  /\ summaryCache' = Head(storageQueue).value
  /\ putDone' = << [videoId |-> Head(storageQueue).cb.videoId,
                    created |-> Head(storageQueue).cb.created,
                    alone |-> Head(storageQueue).cb.alone,
                    with |-> Head(storageQueue).cb.with,
                    before |-> summaryCache,
                    after |-> Head(storageQueue).value,
                    at |-> now] >>
  /\ storageQueue' = Tail(storageQueue)
  /\ cacheLastCall' = [fn |-> "none"]
  /\ UNCHANGED <<parserBuild, cacheCalls, getDone, transcriptCache,
                 clockVars, cacheRest>>

\* time passes: a millisecond, or the seven days of the retention
CacheTick ==
  /\ ticks < MaxCacheTicks
  /\ \E d \in {1, RetentionMs} :
       /\ d = RetentionMs => now \div RetentionMs < MaxLongWaits
       /\ now' = now + d
  /\ ticks' = ticks + 1
  /\ cacheLastCall' = [fn |-> "none"]
  /\ UNCHANGED <<parserBuild, summaryCache, storageQueue, cacheCalls,
                 getDone, putDone, transcriptCache, cacheRest>>

CacheNext ==
  \/ SaveToCache
  \/ GetCachedSummary
  \/ StorageGetForSave
  \/ StorageGetForLookup
  \/ StorageSet
  \/ CacheTick

SpecCache == CacheInit /\ [][CacheNext]_vars

\* the summary inside what a lookup returned: the entry's summary field in
\* the first file, the stored object itself in the second
SummaryIn(found) ==
  IF "summary" \in DOMAIN found THEN found.summary ELSE found

\* ---- C3 as stated: a getCachedSummary(v) issued immediately after
\* saveToCache(v, s) was called (no other save in flight, the retention not
\* elapsed) resolves with an entry whose summary is s, also when v already
\* had an entry.
GetAfterPutReturnsIt ==
  (/\ getDone # <<>>
   /\ getDone[1].expect # <<>>
   /\ getDone[1].at - getDone[1].issued < RetentionMs)
    => /\ getDone[1].result # <<>>
       /\ SummaryIn(getDone[1].result[1]) = getDone[1].expect[1]

\* a lookup issued right after a save resolved, and the store held another
\* summary for this video when the save was called
GetAfterOverwriteResolved ==
  /\ getDone # <<>>
  /\ getDone[1].expect # <<>>
  /\ getDone[1].result # <<>>
  /\ SummaryIn(getDone[1].result[1]) # getDone[1].expect[1]

\* ---- C4 as stated: when a saveToCache completes, the store holds no entry
\* with expiration < now, no entry with expiration >= now was dropped, and
\* the entry just written expires 7 days after its creation.
PutSweepsStore ==
  putDone # <<>> =>
    LET p == putDone[1]
    IN /\ \A k \in VideoIds :
            p.after[k] # <<>> => ~IsExpired(p.after[k][1], p.at)
       /\ \A k \in VideoIds :
            (/\ k # p.videoId
             /\ p.before[k] # <<>>
             /\ "expiration" \in DOMAIN p.before[k][1]
             /\ p.before[k][1].expiration >= p.at)
              => p.after[k] = p.before[k]
       /\ p.after[p.videoId] # <<>>
       /\ "expiration" \in DOMAIN p.after[p.videoId][1]
       /\ p.after[p.videoId][1].expiration = p.created + RetentionMs

\* the first file, for a save that no other save overlaps and whose
\* storage.set is applied in the millisecond of its sweep
PutSweepsStoreAlone ==
  (/\ parserBuild = "expiring"
   /\ putDone # <<>>
   /\ putDone[1].alone
   /\ putDone[1].at = putDone[1].created)
    => PutSweepsStore

\* a save completed that swept an expired neighbour away
SweptNeighbour ==
  /\ putDone # <<>>
  /\ \E k \in VideoIds \ {putDone[1].videoId} :
       /\ putDone[1].before[k] # <<>>
       /\ putDone[1].after[k] = <<>>
       /\ IsExpired(putDone[1].before[k][1], putDone[1].at)

\* ---- C26 as stated: for two saves with distinct keys that overlap (both
\* read the stored collection before either writes it), both entries are
\* in the store once both saves are complete.
NoLostUpdate ==
  putDone # <<>> =>
    \A k \in putDone[1].with \ {putDone[1].videoId} :
      /\ putDone[1].after[k] # <<>>
      /\ putDone[1].after[putDone[1].videoId] # <<>>

\* two overlapping saves are complete, no time has passed since the first
\* call, and the store holds the entry of the second alone
FirstSaveLost ==
  /\ putDone # <<>>
  /\ now = 0
  /\ storageQueue = <<>>
  /\ \E k \in putDone[1].with \ {putDone[1].videoId} :
       /\ putDone[1].before[k] # <<>>
       /\ summaryCache[k] = <<>>
       /\ summaryCache[putDone[1].videoId] # <<>>

(***************************************************************************)
(* Segment extractor (content script): getTranscript, extractTranscript,   *)
(* findTranscriptButton, waitForElement                                    *)
(***************************************************************************)
\* 'Already extracting transcript, please wait'
MsgBusy ==
  <<"A", "l", "r", "e", "a", "d", "y", " ", "e", "x", "t", "r", "a", "c",
    "t", "i", "n", "g", " ", "t", "r", "a", "n", "s", "c", "r", "i", "p",
    "t", ",", " ", "p", "l", "e", "a", "s", "e", " ", "w", "a", "i", "t">>

\* 'Not on a YouTube video page. Please navigate to the video first.'
MsgNotVideoPage ==
  <<"N", "o", "t", " ", "o", "n", " ", "a", " ", "Y", "o", "u", "T", "u",
    "b", "e", " ", "v", "i", "d", "e", "o", " ", "p", "a", "g", "e", ".",
    " ", "P", "l", "e", "a", "s", "e", " ", "n", "a", "v", "i", "g", "a",
    "t", "e", " ", "t", "o", " ", "t", "h", "e", " ", "v", "i", "d", "e",
    "o", " ", "f", "i", "r", "s", "t", ".">>

\* 'No transcript button found. This video may not have captions available.'
MsgNoButton ==
  <<"N", "o", " ", "t", "r", "a", "n", "s", "c", "r", "i", "p", "t", " ",
    "b", "u", "t", "t", "o", "n", " ", "f", "o", "u", "n", "d", ".", " ",
    "T", "h", "i", "s", " ", "v", "i", "d", "e", "o", " ", "m", "a", "y",
    " ", "n", "o", "t", " ", "h", "a", "v", "e", " ", "c", "a", "p", "t",
    "i", "o", "n", "s", " ", "a", "v", "a", "i", "l", "a", "b", "l", "e",
    ".">>

\* 'Failed to extract transcript segments. This video may not have captions available.'
MsgFailed ==
  <<"F", "a", "i", "l", "e", "d", " ", "t", "o", " ", "e", "x", "t", "r",
    "a", "c", "t", " ", "t", "r", "a", "n", "s", "c", "r", "i", "p", "t",
    " ", "s", "e", "g", "m", "e", "n", "t", "s", ".", " ", "T", "h", "i",
    "s", " ", "v", "i", "d", "e", "o", " ", "m", "a", "y", " ", "n", "o",
    "t", " ", "h", "a", "v", "e", " ", "c", "a", "p", "t", "i", "o", "n",
    "s", " ", "a", "v", "a", "i", "l", "a", "b", "l", "e", ".">>

\* 'Timed out waiting for element: '
MsgTimedOut ==
  <<"T", "i", "m", "e", "d", " ", "o", "u", "t", " ", "w", "a", "i", "t",
    "i", "n", "g", " ", "f", "o", "r", " ", "e", "l", "e", "m", "e", "n",
    "t", ":", " ">>

\* 'ytd-transcript-renderer'
SelectorPanel ==
  <<"y", "t", "d", "-", "t", "r", "a", "n", "s", "c", "r", "i", "p", "t",
    "-", "r", "e", "n", "d", "e", "r", "e", "r">>

\* 'ytd-transcript-segment-renderer'
SelectorSegment ==
  <<"y", "t", "d", "-", "t", "r", "a", "n", "s", "c", "r", "i", "p", "t",
    "-", "s", "e", "g", "m", "e", "n", "t", "-", "r", "e", "n", "d", "e",
    "r", "e", "r">>

\* 'This video may not have captions available. Try a different video or check if captions are enabled.'
MsgNoCaptions ==
  <<"T", "h", "i", "s", " ", "v", "i", "d", "e", "o", " ", "m", "a", "y",
    " ", "n", "o", "t", " ", "h", "a", "v", "e", " ", "c", "a", "p", "t",
    "i", "o", "n", "s", " ", "a", "v", "a", "i", "l", "a", "b", "l", "e",
    ".", " ", "T", "r", "y", " ", "a", " ", "d", "i", "f", "f", "e", "r",
    "e", "n", "t", " ", "v", "i", "d", "e", "o", " ", "o", "r", " ", "c",
    "h", "e", "c", "k", " ", "i", "f", " ", "c", "a", "p", "t", "i", "o",
    "n", "s", " ", "a", "r", "e", " ", "e", "n", "a", "b", "l", "e", "d",
    ".">>

\* 'not open'
NeedleNotOpen ==
  <<"n", "o", "t", " ", "o", "p", "e", "n">>

\* 'No transcript'
NeedleNoTranscript ==
  <<"N", "o", " ", "t", "r", "a", "n", "s", "c", "r", "i", "p", "t">>

\* a plausible slip: every failure gets the captions message
ErrorMessageAlwaysCaptions(message) == MsgNoCaptions

\* the error message of the catch of the getTranscript handler
ErrorMessageFor(message) ==
  IF Includes(message, NeedleNotOpen) \/ Includes(message, NeedleNoTranscript)
    THEN MsgNoCaptions
    ELSE message

\* what sendResponse is called with
Reply(outcome) ==
  IF outcome.ok THEN [transcript |-> outcome.transcript]
  ELSE [error |-> ErrorMessageFor(outcome.message)]

\* timeElement && textElement: a row is [time, text], each <<>> (no such
\* element) or <<textContent>>
HasBoth(item) == item.time # <<>> /\ item.text # <<>>

\* segments.push({text, timestamp, seconds, index})
RowSegment(item, index) ==
  [text |-> Trim(item.text[1]),
   timestamp |-> Trim(item.time[1]),
   seconds |-> DecodeTimestamp(Trim(item.time[1])),
   index |-> index]

\* transcriptItems.forEach((item, index) => ...): the segments array
ParseRows(items) ==
  LET positions == [i \in 1..Len(items) |-> i]
      both(i) == HasBoth(items[i])
      kept == SelectSeq(positions, both)
  IN [k \in 1..Len(kept) |-> RowSegment(items[kept[k]], kept[k] - 1)]

\* a plausible slip: the busy flag is not looked at
NeverBusy == FALSE

\* if (isExtractingTranscript)
IsBusy == isExtractingTranscript

\* a plausible slip: an empty segments array is not refused
NoSegmentsUnchecked(segments) == FALSE

\* if (segments.length === 0)
NoSegments(segments) == Len(segments) = 0

\* what a step of one extraction works on: its position, <<>> or <<how the
\* promise of extractTranscript settled>>, and what it can change
WorldOf(r) ==
  [pc |-> reqPc[r], out |-> <<>>, cache |-> contentCache,
   menuOpen |-> menuOpen, controlClicked |-> controlClicked,
   clicks |-> clicksBy[r], read |-> readRows[r], log |-> clickLog[r]]

Returned(w, transcript) ==
  [w EXCEPT !.pc = "answered",
            !.out = <<[ok |-> TRUE, transcript |-> transcript]>>]

Thrown(w, message) ==
  [w EXCEPT !.pc = "answered",
            !.out = <<[ok |-> FALSE, message |-> message]>>]

\* extractTranscript from querySelectorAll on: the rows are read, parsed,
\* and memoized. (The wait before it has just resolved, so there are rows:
\* the test of transcriptItems.length always passes.)
ReadSegments(w, videoId) ==
  LET segments == ParseRows(rows)
      seen == [w EXCEPT !.read = <<rows>>]
  IN IF NoSegments(segments) THEN Thrown(seen, MsgFailed)
     ELSE Returned([seen EXCEPT !.cache[videoId] = <<segments>>], segments)

\* await waitForElement('ytd-transcript-segment-renderer', 5000)
AwaitSegments(w, videoId) ==
  IF rows # <<>> THEN ReadSegments(w, videoId)
  ELSE [w EXCEPT !.pc = "waitSegments"]

\* transcriptButton.click(), then await waitForElement of the panel, which
\* is not in the document yet
ClickControl(w, control) ==
  [w EXCEPT !.controlClicked = TRUE, !.menuOpen = "none",
            !.clicks = @ + 1, !.log = Append(@, control),
            !.pc = "waitPanel"]

\* a plausible slip: the menu is left as it is
CloseMenuForgotten(w, target) == w

\* the click elsewhere that closes the menu: on .html5-video-container
\* after the player's menu, on document.body after the options menu
CloseMenu(w, target) ==
  [w EXCEPT !.menuOpen = "none", !.clicks = @ + 1,
            !.log = Append(@, target)]

\* findTranscriptButton, method 3 up to its wait; without the options button
\* it returns null and extractTranscript throws
TryOptionsMenu(w) ==
  IF page.options
    THEN [w EXCEPT !.menuOpen = "options", !.clicks = @ + 1,
                   !.log = Append(@, "options"), !.pc = "menu3Wait"]
    ELSE Thrown(w, MsgNoButton)

\* a plausible slip: the menu of the player is tried before the direct button
FindTranscriptButtonMenuFirst(w) ==
  IF page.more
    THEN [w EXCEPT !.menuOpen = "ytp", !.clicks = @ + 1,
                   !.log = Append(@, "moreActions"), !.pc = "menu2Wait"]
  ELSE IF page.direct THEN ClickControl(w, "direct")
  ELSE TryOptionsMenu(w)

\* findTranscriptButton up to its first wait, and the click on what it found
FindTranscriptButton(w) ==
  IF page.direct THEN ClickControl(w, "direct")
  ELSE IF page.more
    THEN [w EXCEPT !.menuOpen = "ytp", !.clicks = @ + 1,
                   !.log = Append(@, "moreActions"), !.pc = "menu2Wait"]
  ELSE TryOptionsMenu(w)

\* a plausible slip: the memoized transcript is not looked up
ExtractTranscriptNoMemo(w, videoId) ==
  IF ~page.watch THEN Thrown(w, MsgNotVideoPage)
  ELSE IF panel THEN AwaitSegments(w, videoId)
  ELSE FindTranscriptButton(w)

\* extractTranscript(videoId) up to its first wait
ExtractTranscript(w, videoId) ==
  IF w.cache[videoId] # <<>> THEN Returned(w, w.cache[videoId][1])
  ELSE IF ~page.watch THEN Thrown(w, MsgNotVideoPage)
  ELSE IF panel THEN AwaitSegments(w, videoId)
  ELSE FindTranscriptButton(w)

\* a plausible slip: the flag is cleared in the then of the handler only
FlagAfterResolved(w, flag) ==
  IF w.out # <<>> /\ w.out[1].ok THEN FALSE ELSE flag

\* isExtractingTranscript = false in the then and in the catch of the
\* handler, which run once the promise of extractTranscript has settled
FlagAfter(w, flag) == IF w.out = <<>> THEN flag ELSE FALSE

\* the step of request r ends in w: once the promise has settled, the then
\* or catch of the handler clears the flag and answers
Commit(r, w, flag) ==
  /\ reqPc' = [reqPc EXCEPT ![r] = w.pc]
  /\ response' = [response EXCEPT
                    ![r] = IF w.out = <<>> THEN @ ELSE <<Reply(w.out[1])>>]
  /\ isExtractingTranscript' = FlagAfter(w, flag)
  /\ contentCache' = w.cache
  /\ menuOpen' = w.menuOpen
  /\ controlClicked' = w.controlClicked
  /\ clicksBy' = [clicksBy EXCEPT ![r] = w.clicks]
  /\ readRows' = [readRows EXCEPT ![r] = w.read]
  /\ clickLog' = [clickLog EXCEPT ![r] = w.log]

(***************************************************************************)
(* Segment extractor: bounded messages on a page that reacts in its own    *)
(* time                                                                    *)
(***************************************************************************)
MaxRequests == 3

ReqIds == 1..MaxRequests

\* ' 0:05 '
StampFive ==
  <<" ", "0", ":", "0", "5", " ">>

\* '1:05'
StampSixtyFive ==
  <<"1", ":", "0", "5">>

\* ' hello'
TextHello ==
  <<" ", "h", "e", "l", "l", "o">>

\* 'world'
TextWorld ==
  <<"w", "o", "r", "l", "d">>

RowFirst == [time |-> <<StampFive>>, text |-> <<TextHello>>]
RowSecond == [time |-> <<StampSixtyFive>>, text |-> <<TextWorld>>]
RowNoTime == [time |-> <<>>, text |-> <<TextWorld>>]
RowNoText == [time |-> <<StampFive>>, text |-> <<>>]

\* the rows a page loads into its transcript panel: none, none that has
\* both labels, some, all
PageRowChoices ==
  { <<>>,
    <<RowNoTime, RowNoText>>,
    <<RowNoTime, RowFirst, RowSecond>>,
    <<RowFirst, RowSecond>> }

\* video pages: which buttons there are and whether their menus hold a
\* transcript entry
WatchPages ==
  { [watch |-> TRUE, direct |-> d, more |-> m, ytpItem |-> m /\ mi,
     options |-> o, optItem |-> o /\ oi] :
      d \in {FALSE}, m \in BOOLEAN, mi \in BOOLEAN,
      o \in BOOLEAN, oi \in BOOLEAN }
    \cup { [watch |-> TRUE, direct |-> TRUE, more |-> TRUE, ytpItem |-> TRUE,
            options |-> FALSE, optItem |-> FALSE] }

Pages == WatchPages \cup {BlankPage}

ExtractInit ==
  /\ CodecIdle /\ ClockIdle /\ ReduceIdle /\ AlignIdle /\ CacheIdle
  /\ FormatIdle /\ PopupIdle /\ WaitIdle /\ PromptIdle /\ HandlerIdle /\ WorkerIdle
  /\ contentCache = [v \in VideoIds |-> <<>>]
  /\ isExtractingTranscript = FALSE
  /\ retryCount = 0
  /\ reqPc = [r \in ReqIds |-> "unsent"]
  /\ reqVideo = [r \in ReqIds |-> "none"]
  /\ response = [r \in ReqIds |-> <<>>]
  /\ page \in Pages
  /\ pageRows \in PageRowChoices
  /\ \/ panel = FALSE /\ rows = <<>>
     \/ page.watch /\ panel = TRUE /\ rows \in {<<>>, pageRows}
  /\ menuOpen = "none"
  /\ controlClicked = FALSE
  /\ started = [r \in ReqIds |-> FALSE]
  /\ clicksBy = [r \in ReqIds |-> 0]
  /\ readRows = [r \in ReqIds |-> <<>>]
  /\ clickLog = [r \in ReqIds |-> <<>>]
  /\ arrivedBusy = {}

\* the onMessage listener gets {action: 'getTranscript', videoId}
OnGetTranscript(r, videoId) ==
  /\ reqPc[r] = "unsent"
  /\ \A q \in ReqIds : q < r => reqPc[q] # "unsent"
  /\ reqVideo' = [reqVideo EXCEPT ![r] = videoId]
  /\ arrivedBusy' = IF isExtractingTranscript THEN arrivedBusy \cup {r}
                    ELSE arrivedBusy
  /\ IF IsBusy
       THEN /\ reqPc' = [reqPc EXCEPT ![r] = "answered"]
            /\ response' = [response EXCEPT ![r] = <<[error |-> MsgBusy]>>]
            /\ UNCHANGED <<contentCache, isExtractingTranscript,
                           retryCount, menuOpen, controlClicked,
                           started, clicksBy, readRows, clickLog>>
       ELSE /\ retryCount' = 0
            /\ started' = [started EXCEPT ![r] = TRUE]
            /\ Commit(r, ExtractTranscript(WorldOf(r), videoId), TRUE)
  /\ UNCHANGED <<page, panel, rows, pageRows, extractRest>>

\* a getTranscript message arrives, for either video
GetTranscript(r) == \E videoId \in VideoIds : OnGetTranscript(r, videoId)

\* the 500 ms after the click on the player's More actions button are over:
\* findTranscriptButton looks for a .ytp-menuitem naming the transcript
MoreActionsTimer(r) ==
  /\ reqPc[r] = "menu2Wait"
  /\ \E rendered \in BOOLEAN :
       LET w == WorldOf(r)
           found == rendered /\ w.menuOpen = "ytp" /\ page.ytpItem
           closed == CloseMenu(w, "container")
       IN Commit(r, IF found THEN ClickControl(w, "ytpItem")
                    ELSE TryOptionsMenu(closed),
                 isExtractingTranscript)
  /\ UNCHANGED <<retryCount, reqVideo, page, panel, rows, pageRows, started,
                 arrivedBusy, extractRest>>

\* the 500 ms after the click on the options button are over
OptionsTimer(r) ==
  /\ reqPc[r] = "menu3Wait"
  /\ \E rendered \in BOOLEAN :
       LET w == WorldOf(r)
           found == rendered /\ w.menuOpen = "options" /\ page.optItem
           closed == CloseMenu(w, "body")
       IN Commit(r, IF found THEN ClickControl(w, "optItem")
                    ELSE Thrown(closed, MsgNoButton),
                 isExtractingTranscript)
  /\ UNCHANGED <<retryCount, reqVideo, page, panel, rows, pageRows, started,
                 arrivedBusy, extractRest>>

\* the MutationObserver of waitForElement sees ytd-transcript-renderer
PanelObserved(r) ==
  /\ reqPc[r] = "waitPanel"
  /\ panel
  /\ Commit(r, AwaitSegments(WorldOf(r), reqVideo[r]), isExtractingTranscript)
  /\ UNCHANGED <<retryCount, reqVideo, page, panel, rows, pageRows, started,
                 arrivedBusy, extractRest>>

\* the MutationObserver sees a ytd-transcript-segment-renderer
SegmentsObserved(r) ==
  /\ reqPc[r] = "waitSegments"
  /\ rows # <<>>
  /\ Commit(r, ReadSegments(WorldOf(r), reqVideo[r]), isExtractingTranscript)
  /\ UNCHANGED <<retryCount, reqVideo, page, panel, rows, pageRows, started,
                 arrivedBusy, extractRest>>

\* the 5000 ms of waitForElement are over and the panel is not there
PanelTimeout(r) ==
  /\ reqPc[r] = "waitPanel"
  /\ ~panel
  /\ Commit(r, Thrown(WorldOf(r), MsgTimedOut \o SelectorPanel),
            isExtractingTranscript)
  /\ UNCHANGED <<retryCount, reqVideo, page, panel, rows, pageRows, started,
                 arrivedBusy, extractRest>>

\* the 5000 ms of waitForElement are over and no row is there
SegmentsTimeout(r) ==
  /\ reqPc[r] = "waitSegments"
  /\ rows = <<>>
  /\ Commit(r, Thrown(WorldOf(r), MsgTimedOut \o SelectorSegment),
            isExtractingTranscript)
  /\ UNCHANGED <<retryCount, reqVideo, page, panel, rows, pageRows, started,
                 arrivedBusy, extractRest>>

\* the page puts the transcript panel into the document, with its rows or
\* before them
PanelAppears ==
  /\ controlClicked /\ ~panel
  /\ panel' = TRUE
  /\ rows' \in {<<>>, pageRows}
  /\ UNCHANGED <<contentCache, isExtractingTranscript, retryCount, reqPc,
                 reqVideo, response, page, pageRows, menuOpen,
                 controlClicked, started, clicksBy, readRows, arrivedBusy,
                 clickLog, extractRest>>

\* the page puts the rows into the panel
RowsAppear ==
  /\ panel /\ rows = <<>> /\ pageRows # <<>>
  /\ rows' = pageRows
  /\ UNCHANGED <<contentCache, isExtractingTranscript, retryCount, reqPc,
                 reqVideo, response, page, panel, pageRows, menuOpen,
                 controlClicked, started, clicksBy, readRows, arrivedBusy,
                 clickLog, extractRest>>

ExtractNext ==
  \/ \E r \in ReqIds : GetTranscript(r)
  \/ \E r \in ReqIds : MoreActionsTimer(r)
  \/ \E r \in ReqIds : OptionsTimer(r)
  \/ \E r \in ReqIds : PanelObserved(r)
  \/ \E r \in ReqIds : SegmentsObserved(r)
  \/ \E r \in ReqIds : PanelTimeout(r)
  \/ \E r \in ReqIds : SegmentsTimeout(r)
  \/ PanelAppears
  \/ RowsAppear

SpecExtract == ExtractInit /\ [][ExtractNext]_vars

\* the extractions in flight: called and not settled
InFlight ==
  {r \in ReqIds :
     reqPc[r] \in {"menu2Wait", "menu3Wait", "waitPanel", "waitSegments"}}

\* the video of the page the content script runs in: the v of
\* window.location.href, which extractTranscript does not read
ShownVideo == "vidA"

\* ---- C36: a transcript that extractTranscript memoizes under, or returns
\* for, video identifier v was scraped from a page whose current video is v:
\* a request naming another video than the one the page shows never stores
\* or returns the shown page's transcript under the requested identifier.
TranscriptOfShownVideoOnly ==
  /\ \A v \in VideoIds : contentCache[v] # <<>> => v = ShownVideo
  /\ \A r \in ReqIds :
       (response[r] # <<>> /\ "transcript" \in DOMAIN response[r][1])
         => reqVideo[r] = ShownVideo

\* a request naming the other video was answered with the rows of the page
\* shown, which are memoized under the identifier of the request
OtherVideoMemoized ==
  /\ reqVideo[1] # ShownVideo
  /\ readRows[1] = <<pageRows>>
  /\ response[1] = <<[transcript |-> ParseRows(pageRows)]>>
  /\ contentCache[reqVideo[1]] = <<ParseRows(pageRows)>>

\* ---- C1: at most one extraction is in flight at any time, and a
\* getTranscript message that arrives while one is in flight is answered in
\* the same step with the Busy error, without a call of extractTranscript
\* and without a click.
OneExtractionInFlight ==
  /\ Cardinality(InFlight) <= 1
  /\ isExtractingTranscript <=> InFlight # {}
  /\ \A r \in arrivedBusy :
       /\ response[r] = <<[error |-> MsgBusy]>>
       /\ reqPc[r] = "answered"
       /\ ~started[r]
       /\ clicksBy[r] = 0

\* a message got the Busy answer while the extraction before it, which has
\* opened a menu, is still waiting
BusyWhileMenuOpen ==
  \E r \in arrivedBusy, q \in InFlight :
    /\ q < r
    /\ clicksBy[q] > 0
    /\ reqPc[q] \in {"menu2Wait", "menu3Wait"}
    /\ response[r] = <<[error |-> MsgBusy]>>

\* the number of rows that have both labels
ParsableCount(items) == Cardinality({i \in 1..Len(items) : HasBoth(items[i])})

\* ---- C2: an extraction that reads rows of which none is parsable fails
\* with the 'Failed to extract transcript segments' error; no answer
\* carries an empty transcript and no empty transcript is memoized.
NeverEmptyTranscript ==
  /\ \A r \in ReqIds :
       /\ (readRows[r] # <<>> /\ ParsableCount(readRows[r][1]) = 0)
            => response[r] = <<[error |-> MsgFailed]>>
       /\ (response[r] # <<>> /\ "transcript" \in DOMAIN response[r][1])
            => Len(response[r][1].transcript) >= 1
  /\ \A v \in VideoIds :
       contentCache[v] # <<>> => Len(contentCache[v][1]) >= 1

\* an extraction read two rows, neither with both labels, and was answered
\* with the error; nothing is memoized for its video
UnparsableRowsRead ==
  \E r \in ReqIds :
    /\ readRows[r] # <<>>
    /\ Len(readRows[r][1]) = 2
    /\ ParsableCount(readRows[r][1]) = 0
    /\ response[r] = <<[error |-> MsgFailed]>>
    /\ contentCache[reqVideo[r]] = <<>>

\* the transcript of an answer, <<>> for no answer or an error
TranscriptOfAnswer(r) ==
  IF response[r] # <<>> /\ "transcript" \in DOMAIN response[r][1]
    THEN response[r][1].transcript
    ELSE <<>>

\* ---- C19 as stated: rows without the timestamp label or without the text
\* label are skipped without failing the extraction, and the index of each
\* segment is its 0-based position among the parsed rows: 0..k-1, no gaps.
IndexAmongParsedRows ==
  \A r \in ReqIds :
    /\ (readRows[r] # <<>> /\ ParsableCount(readRows[r][1]) > 0) =>
         Len(TranscriptOfAnswer(r)) = ParsableCount(readRows[r][1])
    /\ \A k \in 1..Len(TranscriptOfAnswer(r)) :
         TranscriptOfAnswer(r)[k].index = k - 1

\* three rows were read, the first without timestamp label, and the answer
\* has the two others
RowSkippedReached ==
  \E r \in ReqIds :
    /\ readRows[r] # <<>>
    /\ Len(readRows[r][1]) = 3
    /\ ~HasBoth(readRows[r][1][1])
    /\ Len(TranscriptOfAnswer(r)) = 2

\* ---- C18: once an extraction for a video has succeeded, every later
\* extraction for this video is settled at once with the same segments,
\* without a click, without a wait and without reading the rows again.
MemoizedExtraction ==
  \A q \in ReqIds, r \in ReqIds :
    (/\ q < r
     /\ reqVideo[q] = reqVideo[r]
     /\ TranscriptOfAnswer(q) # <<>>
     /\ started[r])
      => /\ reqPc[r] = "answered"
         /\ response[r] = response[q]
         /\ clicksBy[r] = 0
         /\ readRows[r] = <<>>

\* a second extraction for a video was answered from the memo of a first
\* one that had to open the panel
MemoAnswered ==
  \E q \in ReqIds, r \in ReqIds :
    /\ q < r
    /\ reqVideo[q] = reqVideo[r]
    /\ clicksBy[q] > 0
    /\ readRows[q] # <<>>
    /\ TranscriptOfAnswer(q) # <<>>
    /\ started[r]
    /\ response[r] = response[q]

\* whether target is among the clicks of the log
Clicked(log, target) == \E i \in 1..Len(log) : log[i] = target

\* ---- C20: the direct button, the More actions menu of the player and the
\* options menu are tried in this order, and once a method has yielded the
\* control, the menu button of no later method is clicked.
DiscoveryInOrder ==
  \A r \in ReqIds :
    LET log == clickLog[r]
    IN /\ Clicked(log, "direct") => log = <<"direct">>
       /\ (page.direct /\ log # <<>>) => log = <<"direct">>
       /\ Clicked(log, "moreActions") => log[1] = "moreActions"
       /\ (page.more /\ ~page.direct /\ log # <<>>) => log[1] = "moreActions"
       /\ Clicked(log, "ytpItem") =>
            log = <<"moreActions", "ytpItem">>
       /\ Clicked(log, "options") =>
            \/ ~page.more /\ log[1] = "options"
            \/ /\ Len(log) >= 3
               /\ SubSeq(log, 1, 3) = <<"moreActions", "container", "options">>

\* the player's menu yielded the transcript entry on a page that has an
\* options button as well, and the options button was not clicked
MenuYieldedControl ==
  \E r \in ReqIds :
    /\ page.options /\ page.optItem
    /\ clickLog[r] = <<"moreActions", "ytpItem">>
    /\ reqPc[r] = "waitPanel"

\* the error of an answer: <<>> for no answer or a transcript
ErrorOfAnswer(r) ==
  IF response[r] # <<>> /\ "error" \in DOMAIN response[r][1]
    THEN <<response[r][1].error>>
    ELSE <<>>

\* whether the message clicked the transcript control itself
ControlClickedBy(r) ==
  \/ Clicked(clickLog[r], "direct")
  \/ Clicked(clickLog[r], "ytpItem")
  \/ Clicked(clickLog[r], "optItem")

\* how the extraction of a message failed, told from what it did: it came
\* while another was in flight (Busy); it read rows (EmptyTranscript); it
\* found no control to click (NoTranscriptUI); it clicked the control, or
\* found the panel there, and waited in vain (PanelTimeout)
FailureKind(r) ==
  IF r \in arrivedBusy THEN "Busy"
  ELSE IF ErrorOfAnswer(r) = <<>> \/ ~started[r] THEN "none"
  ELSE IF readRows[r] # <<>> THEN "EmptyTranscript"
  ELSE IF ~page.watch THEN "NotVideoPage"
  ELSE IF ControlClickedBy(r) THEN "PanelTimeout"
  ELSE IF clickLog[r] # <<>> \/ ~panel THEN "NoTranscriptUI"
  ELSE "PanelTimeout"

\* the error messages each kind of failure is answered with
MessagesOfKind(kind) ==
  CASE kind = "Busy" -> {MsgBusy}
    [] kind = "EmptyTranscript" -> {MsgFailed}
    [] kind = "NoTranscriptUI" -> {MsgNoCaptions}
    [] kind = "PanelTimeout" ->
         {MsgTimedOut \o SelectorPanel, MsgTimedOut \o SelectorSegment}
    [] OTHER -> {}

ReportedKinds == {"Busy", "EmptyTranscript", "NoTranscriptUI", "PanelTimeout"}

\* ---- C16: the answer to a failed extraction tells its kind: the messages
\* of Busy, EmptyTranscript, NoTranscriptUI and PanelTimeout are pairwise
\* different, so that the failures that point to missing captions
\* (NoTranscriptUI, EmptyTranscript) are told from the transient ones
\* (PanelTimeout, Busy).
ErrorKindTold ==
  /\ \A r \in ReqIds :
       FailureKind(r) \in ReportedKinds =>
         /\ ErrorOfAnswer(r) # <<>>
         /\ ErrorOfAnswer(r)[1] \in MessagesOfKind(FailureKind(r))
  /\ \A j \in ReportedKinds, k \in ReportedKinds :
       j # k => MessagesOfKind(j) \cap MessagesOfKind(k) = {}

\* one message was answered Busy while the extraction before it then timed
\* out waiting for the panel
BusyAndTimeoutTold ==
  \E q \in ReqIds, r \in ReqIds :
    /\ FailureKind(q) = "PanelTimeout"
    /\ ControlClickedBy(q)
    /\ FailureKind(r) = "Busy"
    /\ ErrorOfAnswer(q) # ErrorOfAnswer(r)

\* an extraction found no control and was told so
NoControlTold ==
  \E r \in ReqIds :
    /\ FailureKind(r) = "NoTranscriptUI"
    /\ clickLog[r] # <<>>
    /\ ErrorOfAnswer(r) = <<MsgNoCaptions>>

RECURSIVE StripTrailingPunctuation(_)
StripTrailingPunctuation(word) ==
  IF word # <<>> /\ word[Len(word)] \in Punctuation
    THEN StripTrailingPunctuation(SubSeq(word, 1, Len(word) - 1))
    ELSE word

\* the keywords as stated: the tokens of at least 5 characters, lower-cased,
\* each without the punctuation at its end
StatedKeywords(point) ==
  LET long == SelectSeq(SplitSpaces(ToLowerCase(point)), IsKeywordLength)
  IN [k \in 1..Len(long) |-> StripTrailingPunctuation(long[k])]

\* ---- C23 as stated: the keywords counted for a point are its tokens of
\* at least 5 characters, lower-cased and without trailing punctuation, and
\* every keyword counted has at least 5 characters.
KeywordsAtLeastFive ==
  alResult # <<>> =>
    \A i \in 1..Len(alPoints) :
      /\ Keywords(alPoints[i]) = StatedKeywords(alPoints[i])
      /\ \A k \in 1..Len(Keywords(alPoints[i])) :
           Len(Keywords(alPoints[i])[k]) >= MinKeywordLength

\* the point '.....' was given the time of the first segment: its only
\* keyword is the empty string, which every segment includes
EmptyKeywordAligned ==
  /\ alResult # <<>>
  /\ alPoints = <<PointDots>>
  /\ Keywords(PointDots) = << <<>> >>
  /\ Len(alTranscript) >= 2
  /\ alResult[1][1].timestamp = <<alTranscript[1].timestamp>>

\* ---- C14: a lookup leaves the persistent store as it was, and a lookup
\* answered by the store returns the entry stored under the key as it is,
\* also when the expiration of the entry has passed.
LookupLeavesStore ==
  getDone # <<>> =>
    /\ getDone[1].after = getDone[1].before
    /\ getDone[1].fromStore =>
         getDone[1].result = getDone[1].before[getDone[1].videoId]

\* a lookup returned an entry whose expiration had passed
ExpiredEntryReturned ==
  /\ getDone # <<>>
  /\ getDone[1].fromStore
  /\ getDone[1].result # <<>>
  /\ IsExpired(getDone[1].result[1], getDone[1].at)
  /\ summaryCache[getDone[1].videoId] = getDone[1].result

(***************************************************************************)
(* Response formatter (model-loader): formatSummaryResponse, and the       *)
(* rendering of paragraphs by displaySummary (AI popup)                    *)
(***************************************************************************)
\* the literals of the regular expressions, lower-cased for the i flag
LitMainTopic ==
  <<"m", "a", "i", "n", " ", "t", "o", "p", "i", "c">>

\* 'key points'
LitKeyPoints ==
  <<"k", "e", "y", " ", "p", "o", "i", "n", "t", "s">>

\* 'conclusion'
LitConclusion ==
  <<"c", "o", "n", "c", "l", "u", "s", "i", "o", "n">>

\* '1.'
LitOne ==
  <<"1", ".">>

\* '2.'
LitTwo ==
  <<"2", ".">>

\* '3.'
LitThree ==
  <<"3", ".">>

\* "Summary of the video"
DefaultMainTopic ==
  <<"S", "u", "m", "m", "a", "r", "y", " ", "o", "f", " ", "t", "h", "e",
    " ", "v", "i", "d", "e", "o">>

\* whether the literal stands in the text at position i, whatever the case
StandsAt(text, i, literal) ==
  /\ i >= 1
  /\ i + Len(literal) - 1 <= Len(text)
  /\ \A k \in 1..Len(literal) : LowerChar(text[i + k - 1]) = literal[k]

\* the number of characters (?:Name:?|N\.) takes at position i, 0 when it
\* does not match there
HeadLength(text, i, name, number) ==
  IF StandsAt(text, i, name)
    THEN Len(name) + (IF StandsAt(text, i + Len(name), <<":">>) THEN 1 ELSE 0)
  ELSE IF StandsAt(text, i, number) THEN Len(number)
  ELSE 0

\* the positions at which the lookahead (?=Name|N\.) holds
StopsAt(text, j, stops) == \E k \in 1..Len(stops) : StandsAt(text, j, stops[k])

\* response.match(/(?:Name:?|N\.)(.*?)(?=Stop|M\.)/is): <<>> for null, else
\* <<the first group>>, of the leftmost match and with the shortest group;
\* an empty list of stops stands for the expression that ends in (.*)
MatchPart(text, name, number, stops) ==
  LET ends(i) ==
        IF stops = <<>> THEN {Len(text) + 1}
        ELSE {j \in (i + HeadLength(text, i, name, number))..(Len(text) + 1) :
                StopsAt(text, j, stops)}
      starts == {i \in 1..Len(text) :
                   HeadLength(text, i, name, number) > 0 /\ ends(i) # {}}
  IN IF starts = {} THEN <<>>
     ELSE LET i == CHOOSE i \in starts : \A k \in starts : i <= k
              j == CHOOSE j \in ends(i) : \A k \in ends(i) : j <= k
          IN <<SubSeq(text, i + HeadLength(text, i, name, number), j - 1)>>

\* String.prototype.trim for the white space of IsSpace
TrimSpace(s) ==
  LET kept == {i \in 1..Len(s) : ~IsSpace(s[i])}
  IN IF kept = {} THEN <<>>
     ELSE SubSeq(s, CHOOSE i \in kept : \A k \in kept : i <= k,
                 CHOOSE i \in kept : \A k \in kept : i >= k)

\* a plausible slip: the text put in for a part that did not match is lost
PartOrNothing(match, default) ==
  IF match # <<>> THEN TrimSpace(match[1]) ELSE <<>>

\* match ? match[1].trim() : default
PartOr(match, default) ==
  IF match # <<>> THEN TrimSpace(match[1]) ELSE default

\* the characters of /[\u2022\-\*\d+\.\s]/; "bullet" stands for U+2022
IsBulletSeparator(c) ==
  c \in {"bullet", "-", "*", "+", "."} \/ IsDigit(c) \/ IsSpace(c)

\* keyPoints.split(/[\u2022\-\*\d+\.\s]/).map(p => p.trim()).filter(p => p): the
\* runs of characters between separators, in order
RECURSIVE BulletPoints(_)
BulletPoints(s) ==
  IF s = <<>> THEN <<>>
  ELSE IF IsBulletSeparator(s[1]) THEN BulletPoints(Tail(s))
  ELSE LET n == CHOOSE n \in 1..Len(s) :
                  /\ \A k \in 1..n : ~IsBulletSeparator(s[k])
                  /\ n = Len(s) \/ IsBulletSeparator(s[n + 1])
       IN <<SubSeq(s, 1, n)>> \o BulletPoints(SubSeq(s, n + 1, Len(s)))

\* the paragraph of the Main Topic and of the Conclusion: the time of the
\* given segment, null and 0 when the transcript is empty
EdgeParagraph(text, transcript, k) ==
  [text |-> text,
   timestamp |-> IF Len(transcript) > 0 THEN <<transcript[k].timestamp>>
                 ELSE <<>>,
   seconds |-> IF Len(transcript) > 0 THEN transcript[k].seconds ELSE 0]

\* ModelHandler.formatSummaryResponse
formatSummaryResponse(resp, transcript) ==
  LET mainTopicMatch ==
        MatchPart(resp, LitMainTopic, LitOne, <<LitKeyPoints, LitTwo>>)
      keyPointsMatch ==
        MatchPart(resp, LitKeyPoints, LitTwo, <<LitConclusion, LitThree>>)
      conclusionMatch == MatchPart(resp, LitConclusion, LitThree, <<>>)
      mainTopic == PartOr(mainTopicMatch, DefaultMainTopic)
      keyPoints == PartOr(keyPointsMatch, <<>>)
      conclusion == PartOr(conclusionMatch, <<>>)
      bulletPoints == BulletPoints(keyPoints)
      timestampedPoints == addTimestampsToPoints(bulletPoints, transcript)
  IN [sections |->
        << [title |-> "Main Topic",
            paragraphs |-> <<EdgeParagraph(mainTopic, transcript, 1)>>],
           [title |-> "Key Points",
            paragraphs |->
              [i \in 1..Len(timestampedPoints) |->
                 [text |-> timestampedPoints[i].text,
                  timestamp |-> timestampedPoints[i].timestamp,
                  seconds |-> timestampedPoints[i].seconds]]],
           [title |-> "Conclusion",
            paragraphs |->
              <<EdgeParagraph(conclusion, transcript, Len(transcript))>>] >>]

\* a plausible slip: the link is made whenever seconds is truthy
HasLinkBySeconds(paragraph) ==
  paragraph.seconds # 0 /\ paragraph.seconds # NaN

\* if (paragraph.timestamp && paragraph.seconds): null and '' are falsy, and
\* so are 0 and NaN
HasLink(paragraph) ==
  /\ paragraph.timestamp # <<>>
  /\ paragraph.timestamp[1] # <<>>
  /\ paragraph.seconds # 0
  /\ paragraph.seconds # NaN

\* ${paragraph.timestamp} in a template literal
TimestampText(timestamp) ==
  IF timestamp = <<>> THEN <<"n", "u", "l", "l">> ELSE timestamp[1]

\* the p element displaySummary makes of a paragraph: <<>> or <<the a
\* element in front>>, and the text node
RenderParagraph(paragraph) ==
  [link |-> IF HasLink(paragraph)
              THEN << [textContent |->
                         <<"[">> \o TimestampText(paragraph.timestamp)
                           \o <<"]", " ">>,
                       seconds |-> paragraph.seconds] >>
              ELSE <<>>,
   text |-> paragraph.text]

\* the section elements displaySummary appends
RenderSections(summary) ==
  [k \in 1..Len(summary.sections) |->
     [title |-> summary.sections[k].title,
      paragraphs |->
        [i \in 1..Len(summary.sections[k].paragraphs) |->
           RenderParagraph(summary.sections[k].paragraphs[i])]]]

(***************************************************************************)
(* Response formatter: one response formatted and displayed, or a stored   *)
(* summary displayed                                                       *)
(***************************************************************************)
MaxPieces == 3

\* 'Main Topic: '
PieceMainTopic ==
  <<"M", "a", "i", "n", " ", "T", "o", "p", "i", "c", ":", " ">>

\* 'KEY POINTS:\n'
PieceKeyPoints ==
  <<"K", "E", "Y", " ", "P", "O", "I", "N", "T", "S", ":", "\n">>

\* 'Conclusion'
PieceConclusion ==
  <<"C", "o", "n", "c", "l", "u", "s", "i", "o", "n">>

\* '1. '
PieceOne ==
  <<"1", ".", " ">>

\* '2.'
PieceTwo ==
  <<"2", ".">>

\* ' 3.'
PieceThree ==
  <<" ", "3", ".">>

\* ' neural networks explained deeply\n'
PieceText ==
  <<" ", "n", "e", "u", "r", "a", "l", " ", "n", "e", "t", "w", "o", "r",
    "k", "s", " ", "e", "x", "p", "l", "a", "i", "n", "e", "d", " ", "d",
    "e", "e", "p", "l", "y", "\n">>

\* '- machine learning\n* 2 deeply '
PieceBullets ==
  <<"-", " ", "m", "a", "c", "h", "i", "n", "e", " ", "l", "e", "a", "r",
    "n", "i", "n", "g", "\n", "*", " ", "2", " ", "d", "e", "e", "p", "l",
    "y", " ">>

ResponsePieces ==
  {PieceMainTopic, PieceKeyPoints, PieceConclusion, PieceOne, PieceTwo,
   PieceThree, PieceText, PieceBullets}

RECURSIVE Flatten(_)
Flatten(pieces) ==
  IF pieces = <<>> THEN <<>> ELSE Head(pieces) \o Flatten(Tail(pieces))

\* the response texts: up to MaxPieces pieces one after the other
Responses ==
  UNION { {Flatten(pieces) : pieces \in [1..n -> ResponsePieces]} :
          n \in 0..MaxPieces }

\* paragraphs as storage may hold them from an earlier summary
StoredParagraphs ==
  { [text |-> TextShort, timestamp |-> <<>>, seconds |-> 0],
    [text |-> TextShort, timestamp |-> <<>>, seconds |-> 75],
    [text |-> TextShort, timestamp |-> <<StampOf(75)>>, seconds |-> 75],
    [text |-> TextShort, timestamp |-> <<StampOf(0)>>, seconds |-> 0],
    [text |-> TextShort, timestamp |-> << <<>> >>, seconds |-> 75] }

StoredSummaries ==
  { [sections |-> << [title |-> "Main Topic", paragraphs |-> <<p>>] >>] :
      p \in StoredParagraphs }

\* a transcript whose first caption row stands at 0:00
OpeningTranscript ==
  << [text |-> TextBasics, timestamp |-> StampOf(0), seconds |-> 0,
      index |-> 0],
     [text |-> TextDeeply, timestamp |-> StampOf(200), seconds |-> 200,
      index |-> 1] >>

FormatInit ==
  /\ CodecIdle /\ ClockIdle /\ ReduceIdle /\ AlignIdle /\ CacheIdle
  /\ ExtractIdle /\ PopupIdle /\ WaitIdle /\ PromptIdle /\ HandlerIdle /\ WorkerIdle
  /\ fmResponse \in {<<r>> : r \in Responses}
  /\ fmTranscript \in {<<>>, ExampleTranscript, OpeningTranscript}
  /\ fmSummary = <<>>
  /\ fmShown = <<>>

\* formatSummaryResponse(response, transcript) returns
FormatSummaryResponse ==
  /\ fmSummary = <<>>
  /\ fmShown = <<>>
  /\ fmSummary' = <<formatSummaryResponse(fmResponse[1], fmTranscript)>>
  /\ UNCHANGED <<fmResponse, fmTranscript, fmShown, formatRest>>

\* displaySummary(summary) with the summary just made
DisplaySummary ==
  /\ fmSummary # <<>>
  /\ fmShown = <<>>
  /\ fmShown' = << [summary |-> fmSummary[1],
                    rendered |-> RenderSections(fmSummary[1])] >>
  /\ UNCHANGED <<fmResponse, fmTranscript, fmSummary, formatRest>>

\* displaySummary(cachedSummary) with a summary checkCache found
DisplayCached ==
  /\ fmSummary = <<>>
  /\ fmShown = <<>>
  /\ \E stored \in StoredSummaries :
       fmShown' = << [summary |-> stored,
                      rendered |-> RenderSections(stored)] >>
  /\ UNCHANGED <<fmResponse, fmTranscript, fmSummary, formatRest>>

FormatNext == FormatSummaryResponse \/ DisplaySummary \/ DisplayCached

SpecFormat == FormatInit /\ [][FormatNext]_vars

\* ---- C12: in every summary displayed, a paragraph whose timestamp is null
\* has no timestamp link in front of its text, whatever its seconds.
NullTimestampNeverLinked ==
  fmShown # <<>> =>
    \A k \in 1..Len(fmShown[1].summary.sections) :
      \A i \in 1..Len(fmShown[1].summary.sections[k].paragraphs) :
        fmShown[1].summary.sections[k].paragraphs[i].timestamp = <<>>
          => fmShown[1].rendered[k].paragraphs[i].link = <<>>

\* a paragraph with a null timestamp and seconds 75 was displayed
NullWithSecondsShown ==
  /\ fmShown # <<>>
  /\ \E i \in 1..Len(fmShown[1].summary.sections[1].paragraphs) :
       LET ps == fmShown[1].summary.sections[1].paragraphs
           rs == fmShown[1].rendered[1].paragraphs
       IN /\ ps[i].timestamp = <<>> /\ ps[i].seconds = 75
          /\ rs[i].link = <<>>
          /\ rs[i].text = TextShort

\* a paragraph was displayed with its link
LinkShown ==
  /\ fmShown # <<>>
  /\ fmSummary # <<>>
  /\ fmShown[1].rendered[3].paragraphs[1].link # <<>>

\* ---- C38: displaySummary renders a clickable timestamp link for every
\* paragraph whose timestamp display is non-null, including a paragraph
\* whose segment starts at 0 seconds (such as the Main Topic paragraph taken
\* from the first transcript segment).
StampedParagraphLinked ==
  fmShown # <<>> =>
    \A k \in 1..Len(fmShown[1].summary.sections) :
      \A i \in 1..Len(fmShown[1].summary.sections[k].paragraphs) :
        LET paragraph == fmShown[1].summary.sections[k].paragraphs[i]
        IN (paragraph.timestamp # <<>> /\ paragraph.timestamp[1] # <<>>
              /\ paragraph.seconds # NaN)
             => fmShown[1].rendered[k].paragraphs[i].link # <<>>

\* the summary of a transcript that starts at 0:00 was displayed: its Main
\* Topic paragraph carries the timestamp 0:00 and got no link, its
\* Conclusion paragraph got one
OpeningParagraphUnlinked ==
  /\ fmShown # <<>>
  /\ fmSummary # <<>>
  /\ fmTranscript = OpeningTranscript
  /\ fmShown[1].summary.sections[1].paragraphs[1].timestamp
       = <<StampOf(0)>>
  /\ fmShown[1].summary.sections[1].paragraphs[1].seconds = 0
  /\ fmShown[1].rendered[1].paragraphs[1].link = <<>>
  /\ fmShown[1].rendered[3].paragraphs[1].link # <<>>

\* the lower-cased response holds the literal somewhere
Mentions(resp, literal) == Includes(ToLowerCase(resp), literal)

\* the Key Points block formatSummaryResponse takes out of a response
KeyPointsOf(resp) ==
  PartOr(MatchPart(resp, LitKeyPoints, LitTwo, <<LitConclusion, LitThree>>),
         <<>>)

\* a bullet or number marker: whitespace is none
IsBulletMarker(c) ==
  c \in {"bullet", "-", "*", "+", "."} \/ IsDigit(c)

\* the bullets as stated: the trimmed, non-empty texts between the markers
RECURSIVE StatedBullets(_)
StatedBullets(s) ==
  IF s = <<>> THEN <<>>
  ELSE IF IsBulletMarker(s[1]) THEN StatedBullets(Tail(s))
  ELSE LET n == CHOOSE n \in 1..Len(s) :
                  /\ \A k \in 1..n : ~IsBulletMarker(s[k])
                  /\ n = Len(s) \/ IsBulletMarker(s[n + 1])
           bullet == TrimSpace(SubSeq(s, 1, n))
       IN (IF bullet = <<>> THEN <<>> ELSE <<bullet>>)
            \o StatedBullets(SubSeq(s, n + 1, Len(s)))

\* ---- C24 as stated: the Key Points section has exactly one paragraph per
\* bullet of the Key Points block, whose text is the full text of that
\* bullet.
OneParagraphPerBullet ==
  fmSummary # <<>> =>
    LET paragraphs == fmSummary[1].sections[2].paragraphs
        bullets == StatedBullets(KeyPointsOf(fmResponse[1]))
    IN /\ Len(paragraphs) = Len(bullets)
       /\ \A i \in 1..Len(paragraphs) : paragraphs[i].text = bullets[i]

\* 'KEY POINTS:\n- machine learning\n* 2 deeply Conclusion' was formatted: the two
\* bullets came out as the three paragraphs machine, learning, deeply
BulletsCutIntoWords ==
  /\ fmSummary # <<>>
  /\ fmResponse[1] = PieceKeyPoints \o PieceBullets \o PieceConclusion
  /\ StatedBullets(KeyPointsOf(fmResponse[1]))
       = << <<"m", "a", "c", "h", "i", "n", "e", " ", "l", "e", "a", "r", "n", "i", "n", "g">>, <<"d", "e", "e", "p", "l", "y">> >>
  /\ LET paragraphs == fmSummary[1].sections[2].paragraphs
     IN /\ Len(paragraphs) = 3
        /\ paragraphs[1].text = <<"m", "a", "c", "h", "i", "n", "e">>
        /\ paragraphs[2].text = <<"l", "e", "a", "r", "n", "i", "n", "g">>
        /\ paragraphs[3].text = <<"d", "e", "e", "p", "l", "y">>

\* ---- C15: for every response text formatSummaryResponse returns exactly
\* the three sections Main Topic, Key Points, Conclusion, in this order; a
\* part whose heading the response does not hold gets the default: the text
\* 'Summary of the video' for the main topic, no key point, an empty
\* conclusion.
FormatAlwaysThreeSections ==
  fmSummary # <<>> =>
    LET sections == fmSummary[1].sections
        resp == fmResponse[1]
    IN /\ Len(sections) = 3
       /\ sections[1].title = "Main Topic"
       /\ sections[2].title = "Key Points"
       /\ sections[3].title = "Conclusion"
       /\ Len(sections[1].paragraphs) = 1
       /\ Len(sections[3].paragraphs) = 1
       /\ (~Mentions(resp, LitMainTopic) /\ ~Mentions(resp, LitOne)) =>
            sections[1].paragraphs[1].text = DefaultMainTopic
       /\ (~Mentions(resp, LitKeyPoints) /\ ~Mentions(resp, LitTwo)) =>
            /\ sections[1].paragraphs[1].text = DefaultMainTopic
            /\ sections[2].paragraphs = <<>>
       /\ (~Mentions(resp, LitConclusion) /\ ~Mentions(resp, LitThree)) =>
            sections[3].paragraphs[1].text = <<>>

\* a response with none of the headings was formatted
NoHeadingFormatted ==
  /\ fmSummary # <<>>
  /\ fmResponse[1] = PieceText \o PieceBullets
  /\ fmSummary[1].sections[1].paragraphs[1].text = DefaultMainTopic
  /\ fmSummary[1].sections[2].paragraphs = <<>>
  /\ fmSummary[1].sections[3].paragraphs[1].text = <<>>

(***************************************************************************)
(* AI popup: handleSummarizeClick, getTranscript, retryWithBackgroundHelp, *)
(* checkCache, cacheResults, together with the content script of the      *)
(* active tab                                                              *)
(***************************************************************************)
MaxClicks == 2

ClickIds == 1..MaxClicks

NoOps ==
  [checks |-> 0, extractions |-> 0, sends |-> 0, helps |-> 0,
   reductions |-> 0, writes |-> 0]

\* a call of handleSummarizeClick between isProcessing = true and finally
Active(c) ==
  ppPc[c] \in {"checkingCache", "queryingTabs", "awaitingReply",
               "awaitingHelp", "summarizing", "cachingGet", "cachingSet"}

\* a plausible slip: the test of isProcessing is left out
NeverProcessing == FALSE

\* if (isProcessing) { ...; return; }
Processing == isProcessing

\* a plausible slip: the helper sends the getTranscript message once more
HelpActionGetTranscript == "getTranscript"

\* the action of the message retryWithBackgroundHelp sends
HelpAction == "summarizeDirectly"

\* retryWithBackgroundHelp: one message to the background script
RetryWithBackgroundHelp(ops) ==
  [ops EXCEPT !.helps = @ + 1,
              !.sends = @ + (IF HelpAction = "getTranscript" THEN 1 ELSE 0)]

\* what the url input holds: nothing, a text that is no video URL, or the
\* URL of a video
UrlInputs == {"", "not a video"} \cup VideoIds

\* a response of the generator with the three headings:
\* '1. deeply2.machine learning 3.deeply'
SampleResponse ==
  PieceOne \o PointDeeply \o PieceTwo \o PointMachine \o PieceThree
    \o PointDeeply

\* the summary object createSummary makes when the generator has answered
AiSummary(transcript, videoId) ==
  [title |-> "Video Summary",
   videoId |-> videoId,
   sections |-> formatSummaryResponse(SampleResponse, transcript).sections,
   useAI |-> TRUE,
   timestamp |-> now]

\* a plausible slip: the stored summary is never found
checkCacheMiss(cache, videoId) == <<>>

\* checkCache resolves with cache[videoId] || null: <<>> for null
checkCache(cache, videoId) == cache[videoId]

\* the messages of the errors the popup makes itself
MsgEnterUrl == "Please enter a YouTube URL"
MsgInvalidUrl ==
  "Invalid YouTube URL. Please enter a valid YouTube video URL."
MsgNoResponse == "Failed to get transcript response"
MsgNoConnection ==
  "Failed to retrieve transcript: Could not establish connection. Receiving end does not exist."
MsgNotPrepared == "Failed to prepare for summarization"
MsgTryAgain ==
  "Please try again in a moment. We need to initialize the YouTube page first."
MsgNoFallback == "AI summarization failed and no fallback available"
MsgNoTranscript ==
  "Could not retrieve transcript. This video might not have captions available."

\* new Error(text) made by the popup, and new Error(response.error)
PopupError(text) == [by |-> "popup", message |-> text]
ContentError(text) == [by |-> "content", message |-> text]

\* the catch and the finally of handleSummarizeClick:
\* displayError(error.message) and isProcessing = false
Errored(c, error) ==
  /\ ppPc' = [ppPc EXCEPT ![c] = "errored"]
  /\ ppError' = [ppError EXCEPT ![c] = <<error>>]
  /\ isProcessing' = FALSE

\* the pages of the active tab, and the rows they load
PopupPages ==
  { BlankPage,
    [watch |-> TRUE, direct |-> FALSE, more |-> FALSE, ytpItem |-> FALSE,
     options |-> FALSE, optItem |-> FALSE],
    [watch |-> TRUE, direct |-> TRUE, more |-> TRUE, ytpItem |-> TRUE,
     options |-> FALSE, optItem |-> FALSE],
    [watch |-> TRUE, direct |-> FALSE, more |-> TRUE, ytpItem |-> TRUE,
     options |-> TRUE, optItem |-> TRUE] }

PopupPageRows == {<<>>, <<RowNoTime, RowFirst, RowSecond>>}

\* a summary stored by an earlier popup
StoredSummary ==
  [title |-> "Video Summary", videoId |-> "vidA", sections |-> <<>>,
   useAI |-> FALSE, timestamp |-> 0]

PopupInit ==
  /\ CodecIdle /\ ClockIdle /\ ReduceIdle /\ AlignIdle /\ FormatIdle
  /\ WaitIdle /\ PromptIdle /\ HandlerIdle /\ WorkerIdle
  /\ parserBuild = "popup"
  /\ summaryCache \in {EmptyStore, [EmptyStore EXCEPT !["vidA"] = <<StoredSummary>>]}
  /\ storageQueue = <<>>
  /\ cacheCalls = 0
  /\ cacheLastCall = [fn |-> "none"]
  /\ getDone = <<>> /\ putDone = <<>>
  /\ contentCache = [v \in VideoIds |-> <<>>]
  /\ isExtractingTranscript = FALSE
  /\ retryCount = 0
  /\ reqPc = [r \in ReqIds |-> "unsent"]
  /\ reqVideo = [r \in ReqIds |-> "none"]
  /\ response = [r \in ReqIds |-> <<>>]
  /\ page \in PopupPages
  /\ pageRows \in PopupPageRows
  /\ panel = FALSE /\ rows = <<>>
  /\ menuOpen = "none"
  /\ controlClicked = FALSE
  /\ started = [r \in ReqIds |-> FALSE]
  /\ clicksBy = [r \in ReqIds |-> 0]
  /\ readRows = [r \in ReqIds |-> <<>>]
  /\ clickLog = [r \in ReqIds |-> <<>>]
  /\ arrivedBusy = {}
  /\ isProcessing = FALSE
  /\ ppPc = [c \in ClickIds |-> "idle"]
  /\ ppVideo = [c \in ClickIds |-> "none"]
  /\ ppHeld = [c \in ClickIds |-> <<>>]
  /\ ppOps = [c \in ClickIds |-> NoOps]
  /\ ppMessage = [c \in ClickIds |-> 0]
  /\ ppSawActive = [c \in ClickIds |-> FALSE]
  /\ ppTimer \in BOOLEAN
  /\ ppTimerCall = 0
  /\ ppInjected \in BOOLEAN
  /\ ppShown = [c \in ClickIds |-> <<>>]
  /\ ppFallback \in BOOLEAN
  /\ ppAi = [c \in ClickIds |-> "none"]
  /\ ppError = [c \in ClickIds |-> <<>>]

\* handleSummarizeClick up to its first wait: the test of isProcessing, the
\* url, extractVideoId, and the storage.get of checkCache
HandleSummarizeClick(c) ==
  /\ ppPc[c] = "idle"
  /\ \A q \in ClickIds : q < c => ppPc[q] # "idle"
  /\ ppSawActive' = [ppSawActive EXCEPT ![c] = \E q \in ClickIds : Active(q)]
  /\ IF Processing
       THEN /\ ppPc' = [ppPc EXCEPT ![c] = "busy"]
            /\ UNCHANGED <<isProcessing, ppVideo, ppOps, ppError>>
       ELSE \E url \in UrlInputs :
              IF url \notin VideoIds
                THEN /\ Errored(c, PopupError(IF url = "" THEN MsgEnterUrl
                                              ELSE MsgInvalidUrl))
                     /\ UNCHANGED <<ppVideo, ppOps>>
                ELSE /\ ppPc' = [ppPc EXCEPT ![c] = "checkingCache"]
                     /\ isProcessing' = TRUE
                     /\ UNCHANGED ppError
                     /\ ppVideo' = [ppVideo EXCEPT ![c] = url]
                     /\ ppOps' = [ppOps EXCEPT ![c].checks = @ + 1]
  /\ UNCHANGED <<ppShown, ppFallback, ppAi>>
  /\ UNCHANGED <<ppHeld, ppMessage, ppInjected, summaryCache,
                 transcriptCache, extractVars, popupRest>>

\* summarizeButton.addEventListener('click', handleSummarizeClick)
ButtonClick(c) ==
  HandleSummarizeClick(c) /\ UNCHANGED <<ppTimer, ppTimerCall>>

\* the keypress listener of the url input, for Enter
EnterKey(c) ==
  HandleSummarizeClick(c) /\ UNCHANGED <<ppTimer, ppTimerCall>>

\* setTimeout(() => { handleSummarizeClick(); }, 300)
AutoSummarizeTimer(c) ==
  /\ ppTimer
  /\ ppTimer' = FALSE
  /\ ppTimerCall' = c
  /\ HandleSummarizeClick(c)

\* the callback of checkCache: a stored summary is displayed, otherwise
\* getTranscript asks chrome.tabs.query for the active tab
CacheAnswered(c) ==
  /\ ppPc[c] = "checkingCache"
  /\ IF checkCache(summaryCache, ppVideo[c]) # <<>>
       THEN /\ ppPc' = [ppPc EXCEPT ![c] = "done"]
            /\ ppShown' =
                 [ppShown EXCEPT
                    ![c] = << [summary |->
                                 checkCache(summaryCache, ppVideo[c])[1],
                               cached |-> TRUE] >>]
            /\ isProcessing' = FALSE
            /\ UNCHANGED ppOps
       ELSE /\ ppPc' = [ppPc EXCEPT ![c] = "queryingTabs"]
            /\ ppOps' = [ppOps EXCEPT ![c].extractions = @ + 1]
            /\ UNCHANGED <<isProcessing, ppShown>>
  /\ UNCHANGED <<ppFallback, ppAi, ppError>>
  /\ UNCHANGED <<ppTimerCall, ppVideo, ppHeld, ppMessage, ppSawActive, ppTimer,
                 ppInjected, summaryCache, transcriptCache, extractVars,
                 popupRest>>

\* the callback of chrome.tabs.query in getTranscript: the getTranscript
\* message to a watch page, the helper otherwise
TabsAnswered(c) ==
  /\ ppPc[c] = "queryingTabs"
  /\ IF page.watch
       THEN /\ ppPc' = [ppPc EXCEPT ![c] = "awaitingReply"]
            /\ ppOps' = [ppOps EXCEPT ![c].sends = @ + 1]
            /\ IF ppInjected
                 THEN \E m \in ReqIds :
                        /\ reqPc[m] = "unsent"
                        /\ \A q \in ReqIds : q < m => reqPc[q] # "unsent"
                        /\ ppMessage' = [ppMessage EXCEPT ![c] = m]
                 ELSE UNCHANGED ppMessage
       ELSE /\ ppPc' = [ppPc EXCEPT ![c] = "awaitingHelp"]
            /\ ppOps' = [ppOps EXCEPT ![c] = RetryWithBackgroundHelp(@)]
            /\ UNCHANGED ppMessage
  /\ UNCHANGED <<ppShown, ppFallback, ppAi, ppError>>
  /\ UNCHANGED <<isProcessing, ppTimerCall, ppVideo, ppHeld, ppSawActive,
                 ppTimer, ppInjected, summaryCache, transcriptCache,
                 extractVars, popupRest>>

\* the content script gets the message of the popup
Deliver(c) ==
  /\ ppPc[c] = "awaitingReply"
  /\ ppMessage[c] # 0
  /\ OnGetTranscript(ppMessage[c], ppVideo[c])

\* no content script listens: the callback of sendMessage finds
\* chrome.runtime.lastError and calls the helper
SendFailed(c) ==
  /\ ppPc[c] = "awaitingReply"
  /\ ppMessage[c] = 0
  /\ ppPc' = [ppPc EXCEPT ![c] = "awaitingHelp"]
  /\ ppOps' = [ppOps EXCEPT ![c] = RetryWithBackgroundHelp(@)]
  /\ UNCHANGED <<ppShown, ppFallback, ppAi, ppError>>
  /\ UNCHANGED <<isProcessing, ppTimerCall, ppVideo, ppHeld, ppMessage,
                 ppSawActive, ppTimer, ppInjected, summaryCache,
                 transcriptCache, extractVars, popupRest>>

\* the callback of sendMessage gets the answer of the content script: a
\* transcript goes to createSummary, an error to the catch
ReplyArrives(c) ==
  /\ ppPc[c] = "awaitingReply"
  /\ ppMessage[c] # 0
  /\ response[ppMessage[c]] # <<>>
  /\ LET reply == response[ppMessage[c]][1]
     IN IF "transcript" \in DOMAIN reply /\ Len(reply.transcript) > 0
          THEN /\ ppPc' = [ppPc EXCEPT ![c] = "summarizing"]
               /\ ppHeld' = [ppHeld EXCEPT ![c] = <<reply.transcript>>]
               /\ ppOps' = [ppOps EXCEPT ![c].reductions = @ + 1]
               /\ UNCHANGED <<isProcessing, ppError>>
          ELSE /\ Errored(c, IF "transcript" \in DOMAIN reply
                               THEN PopupError(MsgNoTranscript)
                             ELSE IF "error" \in DOMAIN reply
                               THEN ContentError(reply.error)
                             ELSE PopupError(MsgNoResponse))
               /\ UNCHANGED <<ppHeld, ppOps>>
  /\ UNCHANGED <<ppShown, ppFallback, ppAi>>
  /\ UNCHANGED <<ppTimerCall, ppVideo, ppMessage, ppSawActive, ppTimer,
                 ppInjected, summaryCache, transcriptCache, extractVars,
                 popupRest>>

\* the message of the error for each outcome of the helper's message:
\* chrome.runtime.lastError, a response with an error, a success
HelpMessage(outcome) ==
  IF outcome = "lastError" THEN MsgNoConnection
  ELSE IF outcome = "error" THEN MsgNotPrepared
  ELSE MsgTryAgain

\* a plausible slip: after a success nothing settles the promise
HelpRejectsFailures(outcome) == outcome # "success"

\* whether the callback of the helper's message calls reject: it does for
\* every outcome
HelpRejects(outcome) == TRUE

\* the callback of the helper's message: every outcome rejects
HelpAnswered(c) ==
  /\ ppPc[c] = "awaitingHelp"
  /\ \E outcome \in {"lastError", "error", "success"} :
       IF HelpRejects(outcome)
         THEN Errored(c, PopupError(HelpMessage(outcome)))
         ELSE /\ ppPc' = [ppPc EXCEPT ![c] = "hung"]
              /\ UNCHANGED <<isProcessing, ppError>>
  /\ UNCHANGED <<ppShown, ppFallback, ppAi>>
  /\ UNCHANGED <<ppTimerCall, ppVideo, ppHeld, ppOps, ppMessage, ppSawActive,
                 ppTimer, ppInjected, summaryCache, transcriptCache,
                 extractVars, popupRest>>

\* a plausible slip: without a fallback the failure is swallowed
NoSummaryFromNever(available, fallback) == FALSE

\* a plausible slip: the failure is thrown on without a look at the fallback
NoSummaryFromAlways(available, fallback) == TRUE

\* the catch of aiError in createSummary: it throws when
\* TranscriptParser.createSummary is no function, or throws itself
NoSummaryFrom(available, fallback) == ~available \/ ~fallback.ok

\* createSummary settles: with the summary of the generator or, when the
\* generator strategy failed, with that of TranscriptParser.createSummary
\* or with an error; a summary is displayed and cacheResults asks storage
\* for the summaryCache object
SummaryMade(c) ==
  /\ ppPc[c] = "summarizing"
  /\ \E ai \in {"ok", "failed"} :
       LET transcript == ppHeld[c][1]
           videoId == ppVideo[c]
           fallback == createSummary(transcript, videoId)
       IN /\ ppAi' = [ppAi EXCEPT ![c] = ai]
          /\ IF ai = "failed" /\ NoSummaryFrom(ppFallback, fallback)
            THEN /\ Errored(c, PopupError(IF ppFallback /\ ~fallback.ok
                                            THEN fallback.error
                                          ELSE MsgNoFallback))
                 /\ UNCHANGED <<ppHeld, ppOps, ppShown, transcriptCache>>
            ELSE /\ ppPc' = [ppPc EXCEPT ![c] = "cachingGet"]
                 /\ ppOps' = [ppOps EXCEPT ![c].writes = @ + 1]
                 /\ UNCHANGED <<isProcessing, ppError>>
                 /\ IF ai = "ok"
                      THEN /\ ppHeld' = [ppHeld EXCEPT
                                           ![c] = <<AiSummary(transcript,
                                                              videoId)>>]
                           /\ UNCHANGED transcriptCache
                      ELSE /\ ppHeld' = [ppHeld EXCEPT
                                           ![c] = <<fallback.summary>>]
                           /\ transcriptCache' =
                                CachePut(videoId,
                                         [CacheEntryOf(videoId) EXCEPT
                                            !.summary = <<fallback.summary>>])
                 /\ ppShown' = [ppShown EXCEPT
                                  ![c] = << [summary |-> ppHeld'[c][1],
                                             cached |-> FALSE] >>]
  /\ UNCHANGED <<ppTimerCall, ppVideo, ppMessage, ppSawActive, ppTimer,
                 ppInjected, ppFallback, summaryCache, extractVars,
                 popupRest>>

\* the callback of storage.get in cacheResults: the summary is put into the
\* object and the object handed to storage.set
CacheGetAnswered(c) ==
  /\ ppPc[c] = "cachingGet"
  /\ ppPc' = [ppPc EXCEPT ![c] = "cachingSet"]
  /\ ppHeld' = [ppHeld EXCEPT
                  ![c] = <<SavedMemo(summaryCache, ppVideo[c], ppHeld[c][1])>>]
  /\ UNCHANGED <<ppShown, ppFallback, ppAi, ppError>>
  /\ UNCHANGED <<isProcessing, ppTimerCall, ppVideo, ppOps, ppMessage,
                 ppSawActive, ppTimer, ppInjected, summaryCache,
                 transcriptCache, extractVars, popupRest>>

\* storage.set is applied, cacheResults resolves, and the finally runs
CacheSetApplied(c) ==
  /\ ppPc[c] = "cachingSet"
  /\ summaryCache' = ppHeld[c][1]
  /\ ppHeld' = [ppHeld EXCEPT ![c] = <<>>]
  /\ ppPc' = [ppPc EXCEPT ![c] = "done"]
  /\ isProcessing' = FALSE
  /\ UNCHANGED <<ppShown, ppFallback, ppAi, ppError>>
  /\ UNCHANGED <<ppTimerCall, ppVideo, ppOps, ppMessage, ppSawActive, ppTimer,
                 ppInjected, transcriptCache, extractVars, popupRest>>

PopupNext ==
  \/ \E c \in ClickIds : ButtonClick(c)
  \/ \E c \in ClickIds : EnterKey(c)
  \/ \E c \in ClickIds : AutoSummarizeTimer(c)
  \/ \E c \in ClickIds : CacheAnswered(c)
  \/ \E c \in ClickIds : TabsAnswered(c)
  \/ \E c \in ClickIds : Deliver(c)
  \/ \E c \in ClickIds : SendFailed(c)
  \/ \E c \in ClickIds : ReplyArrives(c)
  \/ \E c \in ClickIds : HelpAnswered(c)
  \/ \E c \in ClickIds : SummaryMade(c)
  \/ \E c \in ClickIds : CacheGetAnswered(c)
  \/ \E c \in ClickIds : CacheSetApplied(c)
  \/ \E r \in ReqIds : MoreActionsTimer(r)
  \/ \E r \in ReqIds : OptionsTimer(r)
  \/ \E r \in ReqIds : PanelObserved(r)
  \/ \E r \in ReqIds : SegmentsObserved(r)
  \/ \E r \in ReqIds : PanelTimeout(r)
  \/ \E r \in ReqIds : SegmentsTimeout(r)
  \/ PanelAppears
  \/ RowsAppear

SpecPopup == PopupInit /\ [][PopupNext]_vars

\* how many of the calls were made
OpsTotal(c) ==
  ppOps[c].checks + ppOps[c].extractions + ppOps[c].sends + ppOps[c].helps
    + ppOps[c].reductions + ppOps[c].writes

\* ---- C11: at most one call of handleSummarizeClick is under way at any
\* time; a call started by the button, the Enter key or the auto-summarize
\* timer while another is under way returns at once and checks no cache,
\* asks for no transcript, makes no summary and writes no cache.
OneSummarizationActive ==
  /\ Cardinality({c \in ClickIds : Active(c)}) <= 1
  /\ isProcessing <=> \E c \in ClickIds : Active(c)
  /\ \A c \in ClickIds :
       ppSawActive[c] => ppPc[c] = "busy" /\ OpsTotal(c) = 0
  /\ \A c \in ClickIds :
       /\ ppOps[c].checks <= 1
       /\ ppOps[c].extractions <= 1
       /\ ppOps[c].reductions <= 1
       /\ ppOps[c].writes <= 1

\* the auto-summarize timer fired while the call the button had started
\* was waiting for the content script, and returned at once
TimerWhileAwaitingReply ==
  \E c \in ClickIds, q \in ClickIds :
    /\ ppTimerCall # q /\ ppPc[q] = "awaitingReply"
    /\ ppMessage[q] # 0 /\ reqPc[ppMessage[q]] = "waitPanel"
    /\ ppTimerCall = c /\ ppSawActive[c] /\ ppPc[c] = "busy"

\* ---- C27: when the cache check of a call hits, the call goes straight
\* to Done with the cached summary displayed: it sends no getTranscript
\* message, makes no summary, writes no cache, and isProcessing is false
\* again; a call that is Done does nothing more.
CacheHitGoesToDone ==
  [][\A c \in ClickIds :
       /\ (/\ ppPc[c] = "checkingCache"
           /\ ppPc'[c] # "checkingCache"
           /\ summaryCache[ppVideo[c]] # <<>>)
            => /\ ppPc'[c] = "done"
               /\ ppShown'[c] = << [summary |-> summaryCache[ppVideo[c]][1],
                                    cached |-> TRUE] >>
               /\ ~isProcessing'
               /\ ppOps'[c] = [NoOps EXCEPT !.checks = 1]
               /\ ppMessage'[c] = 0
               /\ reqPc' = reqPc
               /\ summaryCache' = summaryCache
       /\ ppPc[c] = "done"
            => /\ ppPc'[c] = "done"
               /\ ppOps'[c] = ppOps[c]
               /\ ppShown'[c] = ppShown[c]
               /\ ppMessage'[c] = ppMessage[c]]_vars

\* a call found the stored summary of vidA and is Done with it displayed
CachedSummaryShown ==
  \E c \in ClickIds :
    /\ ppPc[c] = "done"
    /\ ppVideo[c] = "vidA"
    /\ ppShown[c] = << [summary |-> StoredSummary, cached |-> TRUE] >>
    /\ ppOps[c] = [NoOps EXCEPT !.checks = 1]
    /\ ~isProcessing

\* the content script answered the call with a transcript that is not empty
Extracted(c) ==
  /\ ppMessage[c] # 0
  /\ response[ppMessage[c]] # <<>>
  /\ "transcript" \in DOMAIN response[ppMessage[c]][1]
  /\ Len(response[ppMessage[c]][1].transcript) > 0

\* createSummary returned a summary to the call, which displayed it
Summarized(c) ==
  /\ ppAi[c] = "ok" \/ (ppAi[c] = "failed" /\ ppFallback)
  /\ ppShown[c] # <<>>
  /\ ~ppShown[c][1].cached

\* ---- C28: in every run of a call, cacheResults is called and the store
\* written only after the extraction of the transcript and the creation of
\* the summary have both succeeded in that run, and what is written is that
\* summary under the video of the call; a call that ends Errored has called
\* no cacheResults and leaves the store as it is.
WriteOnlyAfterSuccess ==
  [][/\ summaryCache' # summaryCache =>
          \E c \in ClickIds :
            /\ ppPc[c] = "cachingSet" /\ ppPc'[c] = "done"
            /\ Extracted(c) /\ Summarized(c)
            /\ summaryCache' =
                 [summaryCache EXCEPT ![ppVideo[c]] = <<ppShown[c][1].summary>>]
     /\ \A c \in ClickIds :
          /\ ppOps'[c].writes > ppOps[c].writes =>
               Extracted(c)' /\ Summarized(c)'
          /\ ppPc'[c] = "errored" => ppOps'[c].writes = 0
          /\ (ppPc[c] # "errored" /\ ppPc'[c] = "errored") =>
               summaryCache' = summaryCache
          /\ ppPc[c] = "errored" =>
               ppPc'[c] = "errored" /\ ppOps'[c] = ppOps[c]]_vars

\* one call wrote the summary it had made, and a later call for another
\* video ended Errored when the generator failed and there was no fallback:
\* the store holds what the first wrote
WrittenThenErrored ==
  \E c \in ClickIds, q \in ClickIds :
    /\ ppPc[c] = "done" /\ ppOps[c].writes = 1 /\ ppAi[c] = "ok"
    /\ summaryCache[ppVideo[c]] = <<ppShown[c][1].summary>>
    /\ ppPc[q] = "errored" /\ ppAi[q] = "failed" /\ ppOps[q].writes = 0
    /\ ppVideo[q] # ppVideo[c]
    /\ summaryCache[ppVideo[q]] = <<>>

\* ---- C30: when the generator strategy fails, createSummary returns the
\* summary TranscriptParser.createSummary makes of the same transcript if
\* that function is there, and the call goes on to display and cache it;
\* the call becomes Errored only when there is no fallback.
FallbackOnAiFailure ==
  [][\A c \in ClickIds :
       (ppPc[c] = "summarizing" /\ ppPc'[c] # "summarizing") =>
         /\ ppAi'[c] \in {"ok", "failed"}
         /\ (ppAi'[c] = "failed" /\ ppFallback) =>
              /\ ppPc'[c] = "cachingGet"
              /\ ppShown'[c] =
                   << [summary |->
                         createSummary(ppHeld[c][1], ppVideo[c]).summary,
                       cached |-> FALSE] >>
              /\ ppError'[c] = <<>>
         /\ ppPc'[c] = "errored" <=> (ppAi'[c] = "failed" /\ ~ppFallback)
         /\ ppPc'[c] = "errored" =>
              ppError'[c] = <<PopupError(MsgNoFallback)>>]_vars

\* the generator failed and the call is Done with the summary of
\* TranscriptParser.createSummary displayed and stored
FallbackSummaryStored ==
  \E c \in ClickIds :
    /\ ppPc[c] = "done" /\ ppAi[c] = "failed" /\ ppFallback
    /\ ppShown[c] # <<>>
    /\ ~ppShown[c][1].cached
    /\ "useAI" \notin DOMAIN ppShown[c][1].summary
    /\ Len(ppShown[c][1].summary.sections) > 0
    /\ summaryCache[ppVideo[c]] = <<ppShown[c][1].summary>>

\* the generator failed, there was no fallback, and the call is Errored
ErroredWithoutFallback ==
  \E c \in ClickIds :
    /\ ppPc[c] = "errored" /\ ppAi[c] = "failed" /\ ~ppFallback
    /\ ppError[c] = <<PopupError(MsgNoFallback)>>

\* where a call and a message can stand
PopupPcs ==
  {"idle", "busy", "checkingCache", "queryingTabs", "awaitingReply",
   "awaitingHelp", "summarizing", "cachingGet", "cachingSet", "done",
   "errored", "hung"}
ContentPcs ==
  {"unsent", "menu2Wait", "menu3Wait", "waitPanel", "waitSegments",
   "answered"}

\* a callback of the call is due in the popup: the answer of storage, of
\* chrome.tabs.query, of the content script or of the background script,
\* or the settling of createSummary
PopupPending(c) ==
  /\ Active(c)
  /\ ~(/\ ppPc[c] = "awaitingReply"
       /\ ppMessage[c] # 0
       /\ response[ppMessage[c]] = <<>>)

\* the content script has the message to get, or a timer or an observer of
\* its extraction is due
ContentPending(r) ==
  \/ r \in InFlight
  \/ /\ reqPc[r] = "unsent"
     /\ \E c \in ClickIds : ppPc[c] = "awaitingReply" /\ ppMessage[c] = r

\* a step of a callback or timer that is due, told by what it does to the
\* place of the call or of the message: the steps of CacheAnswered,
\* TabsAnswered, SendFailed, ReplyArrives, HelpAnswered, SummaryMade,
\* CacheGetAnswered, CacheSetApplied, and of Deliver, MoreActionsTimer,
\* OptionsTimer, PanelObserved, SegmentsObserved, PanelTimeout,
\* SegmentsTimeout; a step of the popup leaves the messages where they
\* stand, a step of the content script the calls
PopupProgress ==
  \/ \E c \in ClickIds :
       /\ PopupPending(c)
       /\ \E to \in PopupPcs \ {ppPc[c]} : ppPc' = [ppPc EXCEPT ![c] = to]
       /\ reqPc' = reqPc
  \/ \E r \in ReqIds :
       /\ ContentPending(r)
       /\ \E to \in ContentPcs \ {reqPc[r]} :
            reqPc' = [reqPc EXCEPT ![r] = to]
       /\ ppPc' = ppPc

\* SpecPopup with the event loops running what is due: the callbacks of
\* chrome.storage, chrome.tabs and chrome.runtime are called, the awaited
\* promises settle, and the timers of the content script fire
FairPopup == SpecPopup /\ WF_<<ppPc, reqPc>>(PopupProgress)

\* a call that is Done or Errored
Ended(c) == ppPc[c] \in {"done", "errored"}

\* the getTranscript message of the call cannot be delivered: the active
\* tab is no video page, or no content script listens in it
Undeliverable(c) ==
  \/ ppPc[c] = "queryingTabs" /\ ~page.watch
  \/ ppPc[c] = "awaitingReply" /\ ppMessage[c] = 0
  \/ ppPc[c] = "awaitingHelp"

\* ---- C29: every call that set isProcessing reaches Done or Errored in
\* the end, and isProcessing is false when it does; a call whose
\* getTranscript message cannot be delivered ends Errored with a message of
\* the popup displayed.
EveryRequestEnds ==
  /\ \A c \in ClickIds : Active(c) ~> Ended(c)
  /\ \A c \in ClickIds :
       Undeliverable(c) ~>
         (/\ ppPc[c] = "errored"
          /\ ppError[c] # <<>>
          /\ ppError[c][1].by = "popup"
          /\ ppError[c][1].message
               \in {MsgNoConnection, MsgNotPrepared, MsgTryAgain})
  /\ [][\A c \in ClickIds : (~Ended(c) /\ Ended(c)') => ~isProcessing']_vars

\* a call on a video page without a content script sent its message, got
\* no receiver, asked the background script, and is Errored
NoReceiverErrored ==
  \E c \in ClickIds :
    /\ ppPc[c] = "errored"
    /\ page.watch /\ ~ppInjected
    /\ ppOps[c].sends = 1 /\ ppMessage[c] = 0 /\ ppOps[c].helps = 1
    /\ ppError[c] = <<PopupError(MsgNoConnection)>>
    /\ ~isProcessing

\* whether a target is in the log more than once
ClickedTwice(log) ==
  \E i \in 1..Len(log), j \in 1..Len(log) : i < j /\ log[i] = log[j]

\* ---- C17: no failure is retried: a call of handleSummarizeClick sends at
\* most one getTranscript message, the content script gets no more
\* getTranscript messages than were sent, and for a message it accepts it
\* runs extractTranscript once: retryCount stays 0 and nothing is clicked a
\* second time.
NoAutomaticRetry ==
  /\ \A c \in ClickIds : ppOps[c].sends <= 1
  /\ Cardinality({m \in ReqIds : reqPc[m] # "unsent"})
       <= Cardinality({c \in ClickIds : ppOps[c].sends >= 1})
  /\ \A c \in ClickIds, q \in ClickIds :
       (c # q /\ ppMessage[c] # 0) => ppMessage[c] # ppMessage[q]
  /\ retryCount = 0
  /\ \A m \in ReqIds :
       /\ ~ClickedTwice(clickLog[m])
       /\ clicksBy[m] = Len(clickLog[m])
       /\ started[m] => m \notin arrivedBusy

\* a call ended in the error of an extraction that clicked the control and
\* timed out, having sent one message
FailedAfterOneMessage ==
  \E c \in ClickIds :
    /\ ppPc[c] = "errored"
    /\ ppOps[c].sends = 1
    /\ ppMessage[c] # 0
    /\ ControlClickedBy(ppMessage[c])
    /\ FailureKind(ppMessage[c]) = "PanelTimeout"
    /\ \A m \in ReqIds : m # ppMessage[c] => reqPc[m] = "unsent"

\* a call whose message no content script got asked the background script
\* and ended in an error
FailedAfterHelp ==
  \E c \in ClickIds :
    /\ ppPc[c] = "errored"
    /\ ppOps[c].sends = 1
    /\ ppOps[c].helps = 1
    /\ ppMessage[c] = 0

(***************************************************************************)
(* waitForElement (content script): one call, with the page mutating the   *)
(* document and time passing                                               *)
(***************************************************************************)
MaxWaitTimeout == 3
MaxRecords == 2

\* a plausible slip: the observer's callback leaves the timer running
ClearTimeoutForgotten(timer) == timer

\* clearTimeout(timeoutId)
ClearTimeout(timer) == IF timer = "armed" THEN "cleared" ELSE timer

\* resolve(element) or reject(new Error(...)) is called
Settle(kind) ==
  /\ wfSettled' = Append(wfSettled,
                         [kind |-> kind, at |-> wfElapsed,
                          element |-> wfElement])
  /\ wfPc' = "settled"

WaitInit ==
  /\ CodecIdle /\ ClockIdle /\ ReduceIdle /\ AlignIdle /\ CacheIdle
  /\ ExtractIdle /\ FormatIdle /\ PopupIdle /\ PromptIdle /\ HandlerIdle /\ WorkerIdle
  /\ wfPc = "none"
  /\ wfTimeout \in 1..MaxWaitTimeout
  /\ wfElapsed = 0
  /\ wfElement \in BOOLEAN
  /\ wfRecords = 0
  /\ wfTimer = "none"
  /\ wfObserver = "none"
  /\ wfSettled = <<>>

\* waitForElement(selector, timeout): an element that is there resolves at
\* once; otherwise the timer is set and the observer starts observing
WaitForElement ==
  /\ wfPc = "none"
  /\ IF wfElement
       THEN /\ Settle("resolved")
            /\ UNCHANGED <<wfTimer, wfObserver>>
       ELSE /\ wfPc' = "waiting"
            /\ wfTimer' = "armed"
            /\ wfObserver' = "observing"
            /\ UNCHANGED wfSettled
  /\ UNCHANGED <<wfTimeout, wfElapsed, wfElement, wfRecords, waitRest>>

\* the mutation record an observing observer is queued
Recorded1 ==
  wfRecords' = IF wfObserver = "observing" THEN wfRecords + 1 ELSE wfRecords

\* the page puts a matching element into the document
DomInsert ==
  /\ wfPc # "none"
  /\ ~wfElement
  /\ wfRecords < MaxRecords
  /\ wfElement' = TRUE
  /\ Recorded1
  /\ UNCHANGED <<wfPc, wfTimeout, wfElapsed, wfTimer, wfObserver, wfSettled,
                 waitRest>>

\* the page takes the matching element out of the document
DomRemove ==
  /\ wfPc # "none"
  /\ wfElement
  /\ wfRecords < MaxRecords
  /\ wfElement' = FALSE
  /\ Recorded1
  /\ UNCHANGED <<wfPc, wfTimeout, wfElapsed, wfTimer, wfObserver, wfSettled,
                 waitRest>>

\* the page changes something else below document.body
DomOther ==
  /\ wfObserver = "observing"
  /\ wfRecords < MaxRecords
  /\ wfRecords' = wfRecords + 1
  /\ UNCHANGED <<wfPc, wfTimeout, wfElapsed, wfElement, wfTimer, wfObserver,
                 wfSettled, waitRest>>

\* the callback of the MutationObserver, at the end of the task that
\* mutated the document
ObserverCallback ==
  /\ wfObserver = "observing"
  /\ wfRecords > 0
  /\ wfRecords' = 0
  /\ IF wfElement
       THEN /\ wfTimer' = ClearTimeout(wfTimer)
            /\ wfObserver' = "disconnected"
            /\ Settle("resolved")
       ELSE UNCHANGED <<wfPc, wfTimer, wfObserver, wfSettled>>
  /\ UNCHANGED <<wfTimeout, wfElapsed, wfElement, waitRest>>

\* the callback of setTimeout, a task of its own
TimerFires ==
  /\ wfTimer = "armed"
  /\ wfElapsed >= wfTimeout
  /\ wfRecords = 0
  /\ wfTimer' = "fired"
  /\ wfObserver' = "disconnected"
  /\ Settle("rejected")
  /\ UNCHANGED <<wfTimeout, wfElapsed, wfElement, wfRecords, waitRest>>

\* time passes between tasks, up to the moment a timer is due
WaitTick ==
  /\ wfPc # "none"
  /\ wfElapsed <= MaxWaitTimeout
  /\ wfRecords = 0 \/ wfObserver # "observing"
  /\ ~(wfTimer = "armed" /\ wfElapsed >= wfTimeout)
  /\ wfElapsed' = wfElapsed + 1
  /\ UNCHANGED <<wfPc, wfTimeout, wfElement, wfRecords, wfTimer, wfObserver,
                 wfSettled, waitRest>>

WaitNext ==
  \/ WaitForElement
  \/ DomInsert
  \/ DomRemove
  \/ DomOther
  \/ ObserverCallback
  \/ TimerFires
  \/ WaitTick

SpecWait == WaitInit /\ [][WaitNext]_vars

\* ---- C22: waitForElement settles once: resolve and reject are called at
\* most once between them; it resolves only with a matching element in the
\* document, at the call or in the task that put it there; it rejects only
\* at the timeout; once it has settled the observer is disconnected and the
\* timer is not running.
WaitSettlesOnce ==
  /\ Len(wfSettled) <= 1
  /\ wfPc = "settled" <=> Len(wfSettled) = 1
  /\ wfPc = "settled" => wfObserver # "observing" /\ wfTimer # "armed"
  /\ wfPc = "waiting" =>
       /\ wfObserver = "observing" /\ wfTimer = "armed"
       /\ wfElapsed <= wfTimeout
       /\ wfElement => wfRecords > 0
  /\ \A i \in 1..Len(wfSettled) :
       /\ wfSettled[i].kind = "resolved" =>
            wfSettled[i].element /\ wfSettled[i].at <= wfTimeout
       /\ wfSettled[i].kind = "rejected" =>
            ~wfSettled[i].element /\ wfSettled[i].at = wfTimeout

\* the element came in time: the call resolved, the timer is cleared, and
\* the time of the timeout has passed since
ResolvedBeforeTimeout ==
  /\ wfPc = "settled"
  /\ wfSettled[1].kind = "resolved"
  /\ wfSettled[1].at > 0
  /\ wfTimer = "cleared"
  /\ wfObserver = "disconnected"
  /\ wfElapsed > wfTimeout

\* the call rejected at the timeout, and the element came afterwards
RejectedAtTimeout ==
  /\ wfPc = "settled"
  /\ wfSettled[1].kind = "rejected"
  /\ wfElement


(***************************************************************************)
(* createSummarizationPrompt (model loader)                                *)
(***************************************************************************)
\* how far past the budget the transcript texts go
MaxOver == 2

\* if (transcriptText.length > 6000)
PromptBudget == 6000

\* substring(0, 2000) and substring(transcriptText.length - 2000)
KeptChars == 2000

\* " [...] "
ElisionMarker == <<" ", "[", ".", ".", ".", "]", " ">>

\* String.prototype.substring(start, end): both clamped to 0..length and
\* swapped when start is the larger
Substring(s, start, end) ==
  LET a == Max(0, Min(start, Len(s)))
      b == Max(0, Min(end, Len(s)))
  IN SubSeq(s, Min(a, b) + 1, Max(a, b))

\* a plausible slip: a text of exactly the budget is trimmed too
OverBudgetFrom(text) == Len(text) >= PromptBudget

\* transcriptText.length > 6000
OverBudget(text) == Len(text) > PromptBudget

\* the text put after TRANSCRIPT:
TrimmedTranscript(transcriptText) ==
  IF OverBudget(transcriptText)
    THEN Substring(transcriptText, 0, KeptChars)
           \o ElisionMarker
           \o Substring(transcriptText, Len(transcriptText) - KeptChars,
                        Len(transcriptText))
    ELSE transcriptText

\* the prompt, as what stands in the three places of the template: the
\* title, the parts of the URL, and the transcript text; '' and undefined
\* are falsy
createSummarizationPrompt(transcriptText, videoInfo) ==
  [title |-> IF videoInfo.title # "" THEN videoInfo.title
             ELSE "YouTube Video",
   url |-> IF videoInfo.url # "" THEN <<videoInfo.url>>
           ELSE <<"https://youtube.com/watch?v=", videoInfo.id>>,
   transcript |-> TrimmedTranscript(transcriptText)]

PromptAlphabet == <<"a", "b", " ", "c", "d", "e", ".", "f", "g", "h", "i">>

\* the text of n characters that repeats the first p letters
PatternText(n, p) == [i \in 1..n |-> PromptAlphabet[((i - 1) % p) + 1]]

PromptLengths ==
  {0, 1, KeptChars, 2 * KeptChars, 2 * KeptChars + Len(ElisionMarker),
   PromptBudget - 1}
    \cup (PromptBudget..(PromptBudget + MaxOver))

PromptTexts == {PatternText(n, p) : n \in PromptLengths, p \in {1, 7, 11}}

PromptVideoInfos ==
  [title : {"", "Talk"}, url : {"", "https://youtu.be/vidA"}, id : {"vidA"}]

PromptInit ==
  /\ CodecIdle /\ ClockIdle /\ ReduceIdle /\ AlignIdle /\ CacheIdle
  /\ ExtractIdle /\ FormatIdle /\ PopupIdle /\ WaitIdle /\ HandlerIdle /\ WorkerIdle
  /\ pmInput \in {<<[transcriptText |-> t, videoInfo |-> v]>> :
                    t \in PromptTexts, v \in PromptVideoInfos}
  /\ pmPrompt = <<>>

\* const prompt = this.createSummarizationPrompt(transcriptText, videoInfo)
CreateSummarizationPrompt ==
  /\ pmInput # <<>>
  /\ pmPrompt = <<>>
  /\ pmPrompt' = <<createSummarizationPrompt(pmInput[1].transcriptText,
                                             pmInput[1].videoInfo)>>
  /\ UNCHANGED <<pmInput, promptRest>>

PromptNext == CreateSummarizationPrompt

SpecPrompt == PromptInit /\ [][PromptNext]_vars

\* ---- C25: for every transcript text, the text embedded in the prompt is
\* within the budget of 6000 characters: it is the text itself when the
\* text has at most 6000 characters, and otherwise its first 2000
\* characters, the elision marker, and its last 2000 characters.
PromptWithinBudget ==
  pmPrompt # <<>> =>
    LET text == pmInput[1].transcriptText
        embedded == pmPrompt[1].transcript
    IN /\ Len(embedded) <= PromptBudget
       /\ Len(text) <= PromptBudget => embedded = text
       /\ Len(text) > PromptBudget =>
            /\ Len(embedded) = 2 * KeptChars + Len(ElisionMarker)
            /\ \A i \in 1..KeptChars : embedded[i] = text[i]
            /\ \A i \in 1..Len(ElisionMarker) :
                 embedded[KeptChars + i] = ElisionMarker[i]
            /\ \A i \in 1..KeptChars :
                 embedded[KeptChars + Len(ElisionMarker) + i]
                   = text[Len(text) - KeptChars + i]

\* a text of 6001 characters was cut to 4007
LongTextElided ==
  /\ pmPrompt # <<>>
  /\ Len(pmInput[1].transcriptText) = PromptBudget + 1
  /\ pmInput[1].transcriptText[1] # pmInput[1].transcriptText[2 * KeptChars]
  /\ Len(pmPrompt[1].transcript) = 2 * KeptChars + Len(ElisionMarker)

\* a text of exactly 6000 characters was embedded whole
BudgetTextKept ==
  /\ pmPrompt # <<>>
  /\ Len(pmInput[1].transcriptText) = PromptBudget
  /\ pmPrompt[1].transcript = pmInput[1].transcriptText

(***************************************************************************)
(* The model handler (window.ModelHandler): initialize and generateSummary *)
(***************************************************************************)
MaxHandlerCalls == 3
LoadSteps == 5

HandlerCalls == 1..MaxHandlerCalls

\* the two initialize() of model-loader.js: the simulated load behind five
\* timers, and the WebLLM load behind loadScript and llm.reload
HandlerBuilds == {"simulated", "webllm"}

\* one updateProgress call: progress.status and the function that made it
Progress(by, status) == [by |-> by, status |-> status]

\* the fields a promise's continuation finds
HandlerFields ==
  [modelLoaded |-> modelLoaded, modelLoading |-> modelLoading, llm |-> llm]

\* if (!this.llm && !this.modelLoading)
LoadsUnguarded == TRUE

Loads == llm = "null" /\ ~modelLoading

HandlerInit ==
  /\ CodecIdle /\ ClockIdle /\ ReduceIdle /\ AlignIdle /\ CacheIdle
  /\ ExtractIdle /\ FormatIdle /\ PopupIdle /\ WaitIdle /\ PromptIdle
  /\ WorkerIdle
  /\ mhBuild \in HandlerBuilds
  /\ mhScript \in BOOLEAN
  /\ (mhBuild = "simulated" => mhScript = FALSE)
  /\ modelLoaded = FALSE /\ modelLoading = FALSE /\ llm = "null"
  /\ mhStatus = "idle" /\ mhVia = <<>> /\ mhWasReady = FALSE
  /\ mhPc = [c \in HandlerCalls |-> "uncalled"]
  /\ mhKind = [c \in HandlerCalls |-> "none"]
  /\ mhStep = [c \in HandlerCalls |-> 0]
  /\ mhResolved = [c \in HandlerCalls |-> <<>>]
  /\ mhChat = [c \in HandlerCalls |-> <<>>]

\* the statuses one step sets, in order; the last one stays in progress
SetProgress(via) ==
  /\ mhVia' = via
  /\ mhStatus' = IF via = <<>> THEN mhStatus ELSE via[Len(via)].status
  /\ mhWasReady' =
       (mhWasReady \/ \E i \in 1..Len(via) : via[i].status = "ready")

\* generateSummary from its try block on: llm.chat on null throws inside
\* the try, and the catch sets "error" and rethrows
InvokeChat(c, before) ==
  /\ mhChat' = [mhChat EXCEPT ![c] = <<HandlerFields'>>]
  /\ IF llm' = "null"
       THEN /\ SetProgress(before \o <<Progress("generateSummary", "generating"),
                                       Progress("generateSummary", "error")>>)
            /\ mhPc' = [mhPc EXCEPT ![c] = "rejected"]
       ELSE /\ SetProgress(before
                           \o <<Progress("generateSummary", "generating")>>)
            /\ mhPc' = [mhPc EXCEPT ![c] = "chatting"]

\* initialize() returns this: a call of initialize resolves, a call of
\* generateSummary goes on to llm.chat
InitializeReturns(c, kind, before) ==
  IF kind = "initialize"
    THEN /\ mhPc' = [mhPc EXCEPT ![c] = "resolved"]
         /\ mhResolved' = [mhResolved EXCEPT ![c] = <<HandlerFields'>>]
         /\ SetProgress(before)
         /\ UNCHANGED mhChat
    ELSE /\ mhResolved' = [mhResolved EXCEPT ![c] = <<HandlerFields'>>]
         /\ InvokeChat(c, before)

\* a call of initialize() or of generateSummary(), up to its first await
HandlerCall(c, kind) ==
  /\ mhPc[c] = "uncalled"
  /\ \A d \in HandlerCalls : d < c => mhPc[d] # "uncalled"
  /\ mhKind' = [mhKind EXCEPT ![c] = kind]
  /\ UNCHANGED <<mhBuild, mhScript, mhStep, handlerRest>>
  /\ IF kind = "generateSummary" /\ modelLoaded
       THEN /\ UNCHANGED <<modelLoaded, modelLoading, llm, mhResolved>>
            /\ InvokeChat(c, <<>>)
       ELSE IF Loads
         THEN /\ modelLoading' = TRUE
              /\ SetProgress(<<Progress("initialize", "loading")>>)
              /\ llm' = IF mhBuild = "webllm" /\ mhScript
                          THEN "module" ELSE llm
              /\ mhPc' = [mhPc EXCEPT ![c] =
                   IF mhBuild = "simulated" THEN "timers"
                   ELSE IF mhScript THEN "reload" ELSE "script"]
              /\ UNCHANGED <<modelLoaded, mhResolved, mhChat>>
         ELSE /\ UNCHANGED <<modelLoaded, modelLoading, llm>>
              /\ InitializeReturns(c, kind, <<>>)

\* the load's last lines: llm is there, modelLoaded, "ready", return this
Loaded(c, before, made) ==
  /\ llm' = made
  /\ modelLoaded' = TRUE
  /\ modelLoading' = FALSE
  /\ InitializeReturns(c, mhKind[c],
                       before \o <<Progress("initialize", "ready")>>)

\* the load's catch block; a generateSummary awaiting it rejects as well
LoadFailed(c) ==
  /\ modelLoading' = FALSE
  /\ SetProgress(<<Progress("initialize", "error")>>)
  /\ mhPc' = [mhPc EXCEPT ![c] = "rejected"]
  /\ UNCHANGED <<modelLoaded, mhResolved, mhChat>>

\* one of the five 500 ms timers of the simulated load
LoadTimer(c) ==
  /\ mhPc[c] = "timers"
  /\ mhStep' = [mhStep EXCEPT ![c] = @ + 1]
  /\ UNCHANGED <<mhBuild, mhScript, mhKind, handlerRest>>
  /\ IF mhStep[c] + 1 < LoadSteps
       THEN /\ SetProgress(<<Progress("initialize", "loading")>>)
            /\ UNCHANGED <<modelLoaded, modelLoading, llm, mhPc, mhResolved,
                           mhChat>>
       ELSE Loaded(c, <<Progress("initialize", "loading")>>, "mock")

\* loadScript settles: the script defines webllm, the ChatModule is made and
\* reload is awaited; or the script fails to load
ScriptSettles(c) ==
  /\ mhPc[c] = "script"
  /\ UNCHANGED <<mhBuild, mhKind, mhStep, handlerRest>>
  /\ \/ /\ mhScript' = TRUE
        /\ llm' = "module"
        /\ mhPc' = [mhPc EXCEPT ![c] = "reload"]
        /\ SetProgress(<<>>)
        /\ UNCHANGED <<modelLoaded, modelLoading, mhResolved, mhChat>>
     \/ /\ LoadFailed(c)
        /\ UNCHANGED <<mhScript, llm>>

\* the init progress callback of llm.reload
ReloadReports(c) ==
  /\ mhPc[c] = "reload"
  /\ mhStep[c] < LoadSteps
  /\ mhStep' = [mhStep EXCEPT ![c] = @ + 1]
  /\ SetProgress(<<Progress("initialize", "loading")>>)
  /\ UNCHANGED <<mhBuild, mhScript, modelLoaded, modelLoading, llm, mhPc,
                 mhKind, mhResolved, mhChat, handlerRest>>

\* llm.reload settles
ReloadSettles(c) ==
  /\ mhPc[c] = "reload"
  /\ UNCHANGED <<mhBuild, mhScript, mhKind, mhStep, handlerRest>>
  /\ \/ Loaded(c, <<>>, llm)
     \/ /\ LoadFailed(c)
        /\ UNCHANGED llm

\* llm.chat settles
ChatSettles(c) ==
  /\ mhPc[c] = "chatting"
  /\ UNCHANGED <<mhBuild, mhScript, modelLoaded, modelLoading, llm, mhKind,
                 mhStep, mhResolved, mhChat, handlerRest>>
  /\ \/ /\ SetProgress(<<Progress("generateSummary", "complete")>>)
        /\ mhPc' = [mhPc EXCEPT ![c] = "resolved"]
     \/ /\ SetProgress(<<Progress("generateSummary", "error")>>)
        /\ mhPc' = [mhPc EXCEPT ![c] = "rejected"]

HandlerNext ==
  \/ \E c \in HandlerCalls : HandlerCall(c, "initialize")
  \/ \E c \in HandlerCalls : HandlerCall(c, "generateSummary")
  \/ \E c \in HandlerCalls : LoadTimer(c)
  \/ \E c \in HandlerCalls : ScriptSettles(c)
  \/ \E c \in HandlerCalls : ReloadReports(c)
  \/ \E c \in HandlerCalls : ReloadSettles(c)
  \/ \E c \in HandlerCalls : ChatSettles(c)

SpecHandler == HandlerInit /\ [][HandlerNext]_vars

\* the positions of a call whose load is in progress
LoadingPcs == {"timers", "script", "reload"}

LoadsInProgress == {c \in HandlerCalls : mhPc[c] \in LoadingPcs}

\* progress.status before each status of the last step
StatusBefore(i) == IF i = 1 THEN mhStatus ELSE mhVia'[i - 1].status

\* C31 as stated: progress.status moves only along idle -> loading -> ready
\* or idle -> loading -> error (repeated "loading" reports of one load
\* aside, and as long as only initialize() is called), at most one load is in progress, modelLoaded is true only once
\* "ready" was reached and then llm is non-null, and modelLoading and
\* modelLoaded are never both true.
StatusOnlyAlongLoadPath ==
  /\ [](/\ Cardinality(LoadsInProgress) <= 1
        /\ (modelLoaded => mhWasReady /\ llm # "null")
        /\ ~(modelLoading /\ modelLoaded))
  /\ [][(\A c \in HandlerCalls : mhKind'[c] # "generateSummary") =>
          \A i \in 1..Len(mhVia') :
            <<StatusBefore(i), mhVia'[i].status>> \in
              {<<"idle", "loading">>, <<"loading", "loading">>,
               <<"loading", "ready">>, <<"loading", "error">>}]_vars

\* C31, amended: the statuses initialize() sets are "loading" while its load
\* is in progress and "ready" or "error" when the load ends; a load starts
\* only when llm is null and no load is in progress, from status "idle" or
\* again from "error"; at most one load is in progress and modelLoading
\* says so; modelLoaded is true only once "ready" was reached and then llm
\* is non-null; modelLoading and modelLoaded are never both true.
LoadStatusPath ==
  /\ [](/\ Cardinality(LoadsInProgress) <= 1
        /\ (modelLoading <=> LoadsInProgress # {})
        /\ (modelLoaded => mhWasReady /\ llm # "null")
        /\ ~(modelLoading /\ modelLoaded))
  /\ [][/\ \A i \in 1..Len(mhVia') :
             mhVia'[i].by = "initialize" =>
               /\ mhVia'[i].status \in {"loading", "ready", "error"}
               /\ mhVia'[i].status = "loading" =>
                    modelLoading \/ modelLoading'
               /\ mhVia'[i].status # "loading" =>
                    modelLoading /\ ~modelLoading'
        /\ (~modelLoading /\ modelLoading') =>
             llm = "null" /\ mhStatus \in {"idle", "error"}]_vars

\* a call of initialize() made while a load is in progress has resolved and
\* that load is still the only one
SecondCallStartsNoLoad ==
  \E c, d \in HandlerCalls :
    /\ c < d
    /\ mhPc[c] \in LoadingPcs
    /\ mhKind[d] = "initialize" /\ mhPc[d] = "resolved"
    /\ LoadsInProgress = {c}

\* C33: whenever a call of initialize() resolves the model is loaded
\* (modelLoaded true, llm non-null), also while another call's load is in
\* progress, and generateSummary never invokes llm.chat while llm is null or
\* the model is still loading.
ResolvedMeansLoaded ==
  \A c \in HandlerCalls :
    /\ mhResolved[c] # <<>> =>
         mhResolved[c][1].modelLoaded /\ mhResolved[c][1].llm # "null"
    /\ mhChat[c] # <<>> =>
         mhChat[c][1].llm # "null" /\ ~mhChat[c][1].modelLoading

\* the popup's preload is still loading, the initialize() awaited by
\* createSummary has resolved without a model, and generateSummary has
\* invoked llm.chat on null
ChatOnNullWhilePreloading ==
  /\ mhKind = <<"initialize", "initialize", "generateSummary">>
  /\ mhPc[1] \in LoadingPcs
  /\ mhPc[2] = "resolved" /\ ~mhResolved[2][1].modelLoaded
  /\ mhPc[3] = "rejected"
  /\ mhChat[3] # <<>> /\ mhChat[3][1].llm = "null"
  /\ mhChat[3][1].modelLoading

(***************************************************************************)
(* The worker: its message listener, handleInitialize and handleGenerate   *)
(***************************************************************************)
MaxWorkerRequests == 3
TotalSteps == 10

WorkerIds == 1..MaxWorkerRequests

\* the prompts of the generate requests
WorkerPrompts == {"prompt1", "prompt2"}

\* event.data of a request message; initialize carries no params
WorkerRequest(action, id, message) ==
  [action |-> action, id |-> id,
   params |-> IF action = "generate" THEN <<[message |-> message]>>
              ELSE <<>>]

\* one self.postMessage({ id, type, data })
Posted(id, type, data) == [id |-> id, type |-> type, data |-> data]

\* the prompt is a string, from which generateContextualSummary makes the
\* response string
generateContextualSummary(message) == <<"summary of", message>>

\* the ten progress messages of handleInitialize, the last with status
\* "ready"
InitializeProgress(id) ==
  [step \in 1..TotalSteps |->
     Posted(id, "progress",
            [status |-> IF step = TotalSteps THEN "ready" ELSE "loading",
             progress |-> step, total |-> TotalSteps])]

handleInitialize(id) ==
  InitializeProgress(id)
    \o <<Posted(id, "complete", [status |-> "ready"])>>

handleGenerateCompleteEarly(id, params) ==
  <<Posted(id, "progress", [status |-> "generating", progress |-> 0]),
    Posted(id, "progress", [status |-> "generating", progress |-> 50]),
    Posted(id, "complete",
           [response |-> generateContextualSummary(params.message)]),
    Posted(id, "progress", [status |-> "complete", progress |-> 100])>>

handleGenerate(id, params) ==
  <<Posted(id, "progress", [status |-> "generating", progress |-> 0]),
    Posted(id, "progress", [status |-> "generating", progress |-> 50]),
    Posted(id, "progress", [status |-> "complete", progress |-> 100]),
    Posted(id, "complete",
           [response |-> generateContextualSummary(params.message)])>>

\* the listener: what the worker posts while it handles event.data
OnWorkerMessage(data) ==
  IF data.action = "initialize" THEN handleInitialize(data.id)
  ELSE IF data.action = "generate"
    THEN handleGenerate(data.id, data.params[1])
  ELSE <<>>

WorkerInit ==
  /\ CodecIdle /\ ClockIdle /\ ReduceIdle /\ AlignIdle /\ CacheIdle
  /\ ExtractIdle /\ FormatIdle /\ PopupIdle /\ WaitIdle /\ PromptIdle
  /\ HandlerIdle
  /\ wkSent = <<>> /\ wkHandled = 0 /\ wkPosted = <<>>

\* the main thread sends a request under an identifier it has not used
WorkerSend(action, id, message) ==
  /\ Len(wkSent) < MaxWorkerRequests
  /\ \A k \in 1..Len(wkSent) : wkSent[k].id # id
  /\ wkSent' = Append(wkSent, WorkerRequest(action, id, message))
  /\ UNCHANGED <<wkHandled, wkPosted, workerRest>>

\* the listener runs for the next request; it runs to its end before the
\* next message event is taken
WorkerListener ==
  /\ wkHandled < Len(wkSent)
  /\ wkHandled' = wkHandled + 1
  /\ wkPosted' =
       LET posted == OnWorkerMessage(wkSent[wkHandled + 1])
       IN  wkPosted \o [n \in 1..Len(posted) |->
                          [req |-> wkHandled + 1, message |-> posted[n]]]
  /\ UNCHANGED <<wkSent, workerRest>>

WorkerNext ==
  \/ \E id \in WorkerIds : WorkerSend("initialize", id, "none")
  \/ \E id \in WorkerIds, message \in WorkerPrompts :
       WorkerSend("generate", id, message)
  \/ \E id \in WorkerIds : WorkerSend("status", id, "none")
  \/ WorkerListener

SpecWorker == WorkerInit /\ [][WorkerNext]_vars

\* the listener is an event handler: a delivered message event is handled
FairWorker == SpecWorker /\ WF_vars(WorkerListener)

\* the messages posted under the identifier of request k, in order
PostedFor(k) ==
  SelectSeq(wkPosted, LAMBDA m : m.message.id = wkSent[k].id)

IsWorkerRequest(k) == wkSent[k].action \in {"initialize", "generate"}

\* C32: every message the worker posts for a request (initialize or
\* generate) with identifier i carries identifier i, and the sequence posted
\* for it is zero or more 'progress' messages followed by exactly one
\* 'complete' message, which is the last message for i; every such request
\* gets its 'complete'.
ProgressThenOneComplete ==
  /\ [](\A n \in 1..Len(wkPosted) :
          /\ wkPosted[n].req <= wkHandled
          /\ wkPosted[n].message.id = wkSent[wkPosted[n].req].id)
  /\ [](\A k \in 1..wkHandled :
          IsWorkerRequest(k) =>
            LET own == PostedFor(k)
            IN  /\ own # <<>>
                /\ own[Len(own)].message.type = "complete"
                /\ \A n \in 1..(Len(own) - 1) :
                     own[n].message.type = "progress")
  /\ \A k \in 1..MaxWorkerRequests :
       (Len(wkSent) >= k /\ IsWorkerRequest(k))
         ~> (\E n \in 1..Len(wkPosted) :
               /\ wkPosted[n].req = k
               /\ wkPosted[n].message.type = "complete")

\* an initialize and a generate request have both been handled, with the
\* eleven and the four messages of the two handlers posted
BothRequestsCompleted ==
  \E k, l \in 1..wkHandled :
    /\ wkSent[k].action = "initialize" /\ Len(PostedFor(k)) = TotalSteps + 1
    /\ wkSent[l].action = "generate" /\ Len(PostedFor(l)) = 4
    /\ wkSent[l].id < wkSent[k].id

(***************************************************************************)
(* The extractor with its timers and observers running                     *)
(***************************************************************************)
\* a timer or an observer of the extraction in flight runs: the steps of
\* MoreActionsTimer, OptionsTimer, PanelObserved, SegmentsObserved,
\* PanelTimeout and SegmentsTimeout, told by what they do to the place of
\* the request
ExtractProgress ==
  \E r \in InFlight :
    \E to \in ContentPcs \ {reqPc[r]} : reqPc' = [reqPc EXCEPT ![r] = to]

\* SpecExtract with the event loop of the page running what is due: the
\* 500 ms timers fire, and each waitForElement is settled by its observer
\* or by its timeout
FairExtract == SpecExtract /\ WF_reqPc(ExtractProgress)

\* the request was accepted: extractTranscript was called for it
Accepted(r) == started[r]

IsReply(answer) ==
  DOMAIN answer = {"transcript"} \/ DOMAIN answer = {"error"}

\* ---- C37: every getTranscript request that is accepted (not Busy) gets
\* exactly one response, a transcript or an error, after finitely many
\* bounded waits, and isExtractingTranscript is false once that response is
\* sent, so that no later request is rejected as Busy because of an
\* extraction that has finished or failed.
AcceptedAnsweredOnce ==
  /\ \A r \in ReqIds :
       Accepted(r) ~> (reqPc[r] = "answered" /\ response[r] # <<>>)
  /\ [](\A r \in ReqIds :
          /\ response[r] # <<>> => IsReply(response[r][1])
          /\ (Accepted(r) /\ response[r] # <<>>) => r \notin InFlight)
  /\ [](isExtractingTranscript <=> InFlight # {})
  /\ [][\A r \in ReqIds :
          /\ response[r] # <<>> => response'[r] = response[r]
          /\ (Accepted(r)' /\ response[r] = <<>> /\ response'[r] # <<>>)
               => ~isExtractingTranscript'
          /\ (~Accepted(r)' /\ response[r] = <<>> /\ response'[r] # <<>>)
               => InFlight # {}]_vars

\* the first request failed after its waits, and the second one, which
\* arrived later, was accepted and answered with a transcript
AcceptedAfterFailure ==
  /\ Accepted(1) /\ response[1] # <<>>
  /\ DOMAIN response[1][1] = {"error"}
  /\ clicksBy[1] > 0
  /\ Accepted(2) /\ 2 \notin arrivedBusy
  /\ response[2] # <<>>
  /\ DOMAIN response[2][1] = {"transcript"}

====
